---- MODULE Spec2Model ----
(***************************************************************************)
(* Model of the "unified cobalt tools" script: the fetch / transcode /     *)
(* delivery pipeline behind the commands cobalt (c), cobaltgif (cg), v2g   *)
(* and v2mp3, and the shared configuration commands.                       *)
(*                                                                         *)
(* The repository holds the script in two variants:                        *)
(*   "unified"  src/unified_cobalt.py                                      *)
(*   "nitro"    src/unnamed/part_000   (adds v2mp3, the setup latch and    *)
(*              the frame-delay speed adjustment)                          *)
(* The variant is fixed by Init; each operator follows the code of the     *)
(* variant that runs.                                                      *)
(*                                                                         *)
(* One request runs at a time; configuration commands interleave with it   *)
(* at its suspension points.  Every action consumes the outcome of one     *)
(* awaited external call (HTTP response, process exit, chat send) and runs *)
(* the handler's code up to the next await.                                *)
(***************************************************************************)
EXTENDS Integers, Sequences, FiniteSets, TLC

-----------------------------------------------------------------------------
(* Bounds and program constants *)

\* Largest number of items in a picker response.
MaxItems == 2

\* Default size threshold (MB) of each variant.
DefaultLimitUnified == 8
DefaultLimitNitro == 50

\* gifsicle --lossy levels of the first and the second pass.
LossyFirst == 30
LossySecond == 60

\* File sizes in MB that an external producer may write: at the lower
\* threshold in use, at the higher one (above the lower), and above both.
Sizes == {8, 50, 52}

\* Values given to the "limit" command (the non-positive one is rejected).
LimitInputs == {0, 8, 50}

Absent == -1
None == -1

Variants == {"unified", "nitro"}

-----------------------------------------------------------------------------
(* Files.  A path is <<kind, n>>; fs maps it to its size, or Absent. *)

DlPath == <<"dl", 0>>              \* tunnel / redirect download
AudioPath == <<"audio", 0>>        \* slideshow audio of a picker
DirectPath == <<"direct", 0>>      \* v2g / v2mp3 direct download
InputPath == <<"input", 0>>        \* workdir/input.mp4
PalettePath == <<"palette", 0>>    \* workdir/palette.png
OptimizedPath == <<"optimized", 0>> \* workdir/optimized.gif
GifPath == <<"gif", 0>>            \* output_dir/<name>_<timestamp>.gif
Mp3Path == <<"mp3", 0>>            \* output_dir/<name>.mp3
ItemPath(i) == <<"item", i>>       \* cobalt_<i>_<type>_<basename>

Paths ==
    {DlPath, AudioPath, DirectPath, InputPath, PalettePath, OptimizedPath,
     GifPath, Mp3Path} \cup {ItemPath(i) : i \in 1..(MaxItems + 1)}

EmptyFs == [p \in Paths |-> Absent]

Exists(f, p) == f[p] # Absent

-----------------------------------------------------------------------------
VARIABLES
    variant,      \* which script file runs
    limit,        \* config: unified_cobalt_limit_mb
    persistent,   \* config: unified_cobalt_persistent
    latch,        \* config: unified_cobalt_first_connection_success
    pc,           \* the await the running handler is suspended at
    cmd,          \* command of the running request
    optimize,     \* parsed -optimize
    speed,        \* parsed -speed
    fs,           \* the files
    msg,          \* the progress message: "none", "live", "deleted"
    items,        \* picker: per item, whether it carries a url
    audio,        \* picker: whether the response carries an audio url
    idx,          \* picker: item being downloaded
    dlCtx,        \* download_file: who called it
    dlPath,       \* download_file: file_path
    dlRange,      \* download_file: whether headers hold Range
    dlAttempt,    \* download_file: loop variable attempt
    paths,        \* downloaded_paths / file_paths
    isList,       \* download_from_cobalt returned a list
    thr,          \* local size_threshold
    initial,      \* convert_to_gif: initial_size
    original,     \* convert_to_gif: original_size (None when unset)
    optimized,    \* convert_to_gif: optimized_size
    ret,          \* the tuple convert_to_gif returned
    qi,           \* delivery: index of the file being delivered
    hist,         \* what the request did (history, read by no operation)
    conc,         \* two overlapping convert_to_gif calls: each one's position
    work,         \* ... the files of the work directory: who wrote each
    lastIn,       \* ... the call that entered convert_to_gif last
    foreign,      \* ... accesses to a file the other call wrote (history)
    args_str,     \* the argument string of a command
    parsed,       \* ... the descriptor its parser returned
    tpc,          \* ... the step the command built from it is at
    cmdline,      \* ... the process commands built so far, in order
    raised,       \* ... the exception that ended it
    config,       \* the configuration store of handle_config_command
    reply,        \* ... its last command, the message sent, the store before
    v2g,          \* two v2g requests by url: each one's position
    input_video,  \* ... the file both download to
    overlap       \* ... whether they were under way at the same time (history)

\* The variables of the request pipeline.
pvars == <<variant, limit, persistent, latch, pc, cmd, optimize, speed, fs,
           msg, items, audio, idx, dlCtx, dlPath, dlRange, dlAttempt, paths,
           isList, thr, initial, original, optimized, ret, qi, hist>>

\* The variables of the two overlapping convert_to_gif calls.
cvars == <<conc, work, lastIn, foreign>>

\* The variables of a command followed from its argument string.
avars == <<args_str, parsed, tpc, cmdline, raised>>

\* The variables of the configuration commands.
kvars == <<config, reply>>

\* The variables of the two overlapping v2g requests.
dvars == <<v2g, input_video, overlap>>

xvars == <<kvars, dvars>>

vars == <<pvars, cvars, avars, xvars>>

\* The current state as one record: the handlers below are functions from a
\* state record to the state record after the code ran to its next await.
\* The history's one-step entries (route, lastSend, lastUpload) describe the step that
\* led to the current state and are blank when the next step starts.
S ==
    [variant |-> variant, limit |-> limit, persistent |-> persistent,
     latch |-> latch, pc |-> pc, cmd |-> cmd, optimize |-> optimize,
     speed |-> speed, fs |-> fs, msg |-> msg, items |-> items,
     audio |-> audio, idx |-> idx, dlCtx |-> dlCtx, dlPath |-> dlPath,
     dlRange |-> dlRange, dlAttempt |-> dlAttempt, paths |-> paths,
     isList |-> isList, thr |-> thr, initial |-> initial,
     original |-> original, optimized |-> optimized, ret |-> ret, qi |-> qi,
     hist |-> [hist EXCEPT !.route = <<>>, !.lastSend = "none",
                           !.lastUpload = <<>>]]

Apply(n) ==
    /\ variant' = n.variant
    /\ limit' = n.limit
    /\ persistent' = n.persistent
    /\ latch' = n.latch
    /\ pc' = n.pc
    /\ cmd' = n.cmd
    /\ optimize' = n.optimize
    /\ speed' = n.speed
    /\ fs' = n.fs
    /\ msg' = n.msg
    /\ items' = n.items
    /\ audio' = n.audio
    /\ idx' = n.idx
    /\ dlCtx' = n.dlCtx
    /\ dlPath' = n.dlPath
    /\ dlRange' = n.dlRange
    /\ dlAttempt' = n.dlAttempt
    /\ paths' = n.paths
    /\ isList' = n.isList
    /\ thr' = n.thr
    /\ initial' = n.initial
    /\ original' = n.original
    /\ optimized' = n.optimized
    /\ ret' = n.ret
    /\ qi' = n.qi
    /\ hist' = n.hist
    /\ UNCHANGED <<cvars, avars, xvars>>

NoRet == [path |-> GifPath, final |-> None, original |-> None,
          upload |-> FALSE, set |-> FALSE]

\* The history of one request (contact, sinceReset and answered span
\* requests).
EmptyHist ==
    [procs |-> <<>>,       \* external processes started, in order
     exits |-> <<>>,       \* ... and how each one that ended has exited
     posts |-> 0,          \* POSTs to the extraction service
     gets |-> <<>>,        \* GETs of the latest download_file call: had Range
     answers |-> <<>>,     \* ... and how each GET was answered
     dl |-> "none",        \* ... and the call: "running", "ok" or "failed"
     apiError |-> "none",  \* error code of the POST's answer, with its HTTP status
     apiHttp |-> 0,
     referer |-> "none",   \* Referer header of the latest download_file call
     src |-> "none",       \* where the request's source came from
     onTwitter |-> FALSE,  \* v2g: the url given is on twitter.com or x.com
     itemLog |-> <<>>,     \* picker: outcome per item, in order
     audioLog |-> "none",  \* picker: outcome of the audio leg
     fetch |-> "none",     \* download_from_cobalt: "none", "ok" or its failure
     route |-> <<>>,       \* the delivery decision just taken (one step)
     sends |-> <<>>,       \* inline sends attempted, in order
     uploads |-> <<>>,     \* upload_to_litterbox calls, in order
     lastSend |-> "none",  \* the inline send outcome just handled (one step)
     lastUpload |-> <<>>,  \* the upload answer just handled (one step)
     links |-> <<>>,       \* paths whose link was posted
     inline |-> <<>>,      \* paths delivered inline
     reports |-> <<>>,     \* failure messages shown to the user
     escaped |-> "none",   \* exception that left the handler
     connLatch |-> "none", \* the latch as read when a ClientError was handled
     contact |-> FALSE,    \* the service answered 200 at some time
     sinceReset |-> FALSE, \* ... and no resetsetup ran since
     answered |-> FALSE]   \* the service sent an HTTP response, of whatever
                           \* status, and no resetsetup ran since

-----------------------------------------------------------------------------
(* Ends of a handler *)

Finish(s) == [s EXCEPT !.pc = "done"]

\* An exception leaves the command handler.
Crash(s, kind) == [s EXCEPT !.pc = "crashed", !.hist.escaped = kind]

AddReport(s, kind) == [s EXCEPT !.hist.reports = Append(@, kind)]

\* msg.edit(content=<failure text>): discord raises NotFound on a deleted
\* message.
EditFailure(s, kind) ==
    IF s.msg = "live" THEN AddReport(s, kind) ELSE Crash(s, "not_found")

\* The text chosen by the outer except of cobalt_command, cobalt_gif_command
\* and v2g_command.
UserMsg(kind) == IF kind = "e413" THEN "limit_exceeded" ELSE kind

\* The outer "except Exception as e" of a command handler: one msg.edit with
\* the user message, then the handler ends.
HandlerFail(s, kind) ==
    LET n == EditFailure(s, UserMsg(kind))
    IN  IF n.pc = "crashed" THEN n ELSE Finish(n)

-----------------------------------------------------------------------------
(* upload_to_litterbox *)

\* Strings the code inspects are sequences of characters.
HttpsPrefix == <<"h", "t", "t", "p", "s", ":", "/", "/">>

\* str.startswith(pre)
StartsWith(str, pre) ==
    /\ Len(str) >= Len(pre)
    /\ SubSeq(str, 1, Len(pre)) = pre

\* Response bodies of the fallback host.
Bodies ==
    {HttpsPrefix \o <<"x">>,
     <<"h", "t", "t", "p", ":", "/", "/", "x">>,
     <<"H", "T", "T", "P", "S", ":", "/", "/", "x">>,
     <<" ">> \o HttpsPrefix \o <<"x">>,
     <<"h", "t", "t", "p", "s", ":", "/">>,
     <<>>}

\* What the upload call can meet: an HTTP answer, or an exception before one
\* (file not readable, network error).
UploadAnswers ==
    [kind : {"response"}, status : {200}, body : Bodies]
    \cup [kind : {"response"}, status : {500}, body : {HttpsPrefix \o <<"x">>}]
    \cup [kind : {"exception"}, status : {0}, body : {<<>>}]

\* Mutation of UploadAccepts: the scheme test only looks for "http".
UploadAcceptsAnyHttp(a) ==
    /\ a.kind = "response"
    /\ a.status = 200
    /\ StartsWith(a.body, <<"h", "t", "t", "p">>)

\* Whether upload_to_litterbox returns (the body, as the url) or raises.
UploadAccepts(a) ==
    /\ a.kind = "response"
    /\ a.status = 200
    /\ StartsWith(a.body, HttpsPrefix)

\* The value upload_to_litterbox hands back: [ok, url].
UploadResult(a) ==
    IF UploadAccepts(a)
    THEN [ok |-> TRUE, url |-> a.body]
    ELSE [ok |-> FALSE, url |-> <<>>]

-----------------------------------------------------------------------------
(* Delivery *)

\* Mutation of Route: at the threshold the file already goes to the host.
RouteAtOrAbove(size, t) == IF size >= t THEN "upload" ELSE "inline"

\* "if file_size > size_threshold" of the command handlers.
Route(size, t) == IF size > t THEN "upload" ELSE "inline"

\* The artifact the handler is delivering.
CurPath(s) ==
    IF s.cmd \in {"cg", "v2g"} THEN GifPath ELSE s.paths[s.qi]

LogRoute(s, p, size, r) ==
    [s EXCEPT !.hist.route =
        <<[path |-> p, size |-> size, thr |-> s.thr, route |-> r]>>]

\* await upload_to_litterbox(path)
StartUpload(s, p) ==
    [s EXCEPT !.pc = "upload", !.hist.uploads = Append(@, p)]

\* await ctx.send(file=discord.File(path))
StartSend(s, p) ==
    [s EXCEPT !.pc = "send", !.hist.sends = Append(@, p)]

\* "msg.edit(...)" then the upload or the inline send, inside the handler's
\* outer try: an edit of a deleted message raises into the outer except.
EditThenDeliver(s, p, r) ==
    IF s.msg # "live" THEN HandlerFail(s, "not_found")
    ELSE IF r = "upload" THEN StartUpload(s, p)
    ELSE StartSend(s, p)

Remove(f, p) == [f EXCEPT ![p] = Absent]

\* The link was posted and the progress message deleted.
Linked(s, p) ==
    [s EXCEPT !.msg = "deleted", !.hist.links = Append(@, p)]

\* The file was sent and the progress message deleted.
Sent(s, p) ==
    [s EXCEPT !.msg = "deleted", !.hist.inline = Append(@, p)]

(* cobalt_command: the loop over file_paths *)

CNext(s) ==
    IF s.qi > Len(s.paths) THEN Finish(s)
    ELSE LET p == s.paths[s.qi]
             r == Route(s.fs[p], s.thr)
         IN  EditThenDeliver(LogRoute(s, p, s.fs[p], r), p, r)

\* "if not persistent: os.remove(path)", then the next file.
CAfterFile(s) ==
    CNext([s EXCEPT !.fs = IF s.persistent THEN @ ELSE Remove(@, s.paths[s.qi]),
                    !.qi = @ + 1])

CDeliver(s) == CNext([s EXCEPT !.thr = s.limit, !.qi = 1])

\* Mutation of COnUpload: a failed upload is tried again.
COnUploadRetry(s, a) ==
    IF UploadAccepts(a) THEN CAfterFile(Linked(s, CurPath(s)))
    ELSE StartUpload(s, CurPath(s))

COnUpload(s, a) ==
    IF UploadAccepts(a) THEN CAfterFile(Linked(s, CurPath(s)))
    ELSE IF s.msg = "live" THEN CAfterFile(AddReport(s, "upload_failed"))
    ELSE HandlerFail(s, "not_found")

COnSend(s, o) ==
    CASE o = "ok" -> CAfterFile(Sent(s, CurPath(s)))
      [] o = "e413" -> EditThenDeliver(s, CurPath(s), "upload")
      [] OTHER -> HandlerFail(s, "send_failed")

(* cobalt_gif_command: step 3 and the clean-up *)

\* os.remove(video_path); os.remove(gif_path), unless persistent.
GCleanup(s) ==
    Finish([s EXCEPT !.fs = IF s.persistent THEN @
                            ELSE Remove(Remove(@, s.paths[1]), GifPath)])

GDeliver(s) ==
    LET r == IF s.ret.upload THEN "upload" ELSE "inline"
    IN  EditThenDeliver(LogRoute(s, GifPath, s.ret.final, r), GifPath, r)

GOnUpload(s, a) ==
    IF UploadAccepts(a) THEN GCleanup(Linked(s, GifPath))
    ELSE IF s.msg = "live" THEN GCleanup(AddReport(s, "upload_failed"))
    ELSE HandlerFail(s, "not_found")

GOnSend(s, o) ==
    CASE o = "ok" -> GCleanup(Sent(s, GifPath))
      [] o = "e413" -> EditThenDeliver(s, GifPath, "upload")
      [] OTHER -> HandlerFail(s, "send_failed")

(* v2g_command: size check, delivery and clean-up *)

VDeliver(s) ==
    LET d == [s EXCEPT !.thr = s.limit]
        r == Route(s.fs[GifPath], d.thr)
    IN  EditThenDeliver(LogRoute(d, GifPath, s.fs[GifPath], r), GifPath, r)

\* The upload branch returns before the clean-up.
VOnUpload(s, a) ==
    IF UploadAccepts(a) THEN Finish(Linked(s, GifPath))
    ELSE HandlerFail(s, "upload_failed")

\* An exception of the send, 413 included, goes to the outer except.
VOnSend(s, o) ==
    CASE o = "ok" ->
            LET n == Sent(s, GifPath)
            IN  Finish([n EXCEPT !.fs = IF s.persistent THEN @
                                 ELSE Remove(Remove(@, DirectPath), GifPath)])
      [] o = "e413" -> HandlerFail(s, "e413")
      [] OTHER -> HandlerFail(s, "send_failed")

(* v2mp3_command: delivery and clean-up *)

\* Removes video_path and audio_path, each if it is set and exists.
MCleanup(s) ==
    Finish([s EXCEPT !.fs = IF s.persistent THEN @
                            ELSE Remove(Remove(@, DirectPath), s.paths[1])])

MDeliver(s) ==
    IF ~Exists(s.fs, s.paths[1])
    THEN Finish(AddReport(s, "conversion_failed"))
    ELSE LET d == [s EXCEPT !.thr = s.limit, !.qi = 1]
             p == s.paths[1]
             r == Route(s.fs[p], d.thr)
             e == LogRoute(d, p, s.fs[p], r)
         IN  IF r = "upload" THEN StartUpload(e, p) ELSE StartSend(e, p)

MOnUpload(s, a) ==
    IF UploadAccepts(a) THEN MCleanup(Linked(s, CurPath(s)))
    ELSE MCleanup(AddReport(s, "upload_failed"))

\* Every exception of the send is shown as "error sending file".
MOnSend(s, o) ==
    IF o = "ok" THEN MCleanup(Sent(s, CurPath(s)))
    ELSE MCleanup(AddReport(s, "send_failed"))

(* The awaited upload or send returned *)

OnUpload(s, a) ==
    LET d == [s EXCEPT !.hist.lastUpload =
                <<[path |-> CurPath(s), status |-> a.status, body |-> a.body,
                   ok |-> UploadResult(a).ok, url |-> UploadResult(a).url]>>]
    IN  CASE s.cmd = "c" -> COnUpload(d, a)
          [] s.cmd = "cg" -> GOnUpload(d, a)
          [] s.cmd = "v2g" -> VOnUpload(d, a)
          [] OTHER -> MOnUpload(d, a)

SendOutcomes == {"ok", "e413", "fail"}

OnSend(s, o) ==
    LET d == [s EXCEPT !.hist.lastSend = o]
    IN  CASE s.cmd = "c" -> COnSend(d, o)
          [] s.cmd = "cg" -> GOnSend(d, o)
          [] s.cmd = "v2g" -> VOnSend(d, o)
          [] OTHER -> MOnSend(d, o)

-----------------------------------------------------------------------------
(* External processes: run_docker_cmd *)

\* The values -speed=<factor> is tried with: the pattern \d*\.?\d+ takes 0.
Speeds == {0, 1, 2}

\* "1/speed", "base_delay / speed": Python raises ZeroDivisionError.
ZeroDivision(sp) == sp = 0

\* How a process ends: exit 0 with its output written, exit 0 with nothing
\* written, or a non-zero exit (run_docker_cmd raises).
ProcOutcomes == {"ok", "noout", "fail"}

\* await run_docker_cmd(<proc>): the call is logged with its input file.
Run(s, at, level, inp) ==
    [s EXCEPT !.pc = at,
              !.hist.procs = Append(@, [proc |-> at, level |-> level,
                                        inp |-> inp, insz |-> s.fs[inp]])]

\* run_docker_cmd returned or raised: the process's exit, as the handler
\* that awaited it sees it.
Exited(s, o) == [s EXCEPT !.hist.exits = Append(@, o)]

\* What a process that writes file p leaves on disk.
Written(f, p, o, size) == IF o = "ok" THEN [f EXCEPT ![p] = size] ELSE f

-----------------------------------------------------------------------------
(* convert_to_gif, from its last stage back to its first *)

\* "return gif_path, final_size, original_size, flag", received by
\* cobalt_gif_command, which goes on to step 3.
\* Mutation of GReturn: the handler switches persistent storage off.
GReturnUnsetsPersistent(s, final, orig, flag) ==
    GDeliver([s EXCEPT !.ret = [path |-> GifPath, final |-> final,
                                original |-> orig, upload |-> flag,
                                set |-> TRUE],
                       !.persistent = FALSE])

GReturn(s, final, orig, flag) ==
    GDeliver([s EXCEPT !.ret = [path |-> GifPath, final |-> final,
                                original |-> orig, upload |-> flag,
                                set |-> TRUE]])

\* "Check final size" and the clean-up of input.mp4 and palette.png.
FinalCheck(s) ==
    LET final == s.fs[GifPath]
    IN  IF final > s.thr
        THEN GReturn(s, final, s.original, TRUE)
        ELSE GReturn([s EXCEPT !.fs = Remove(Remove(@, InputPath), PalettePath)],
                     final, s.original, FALSE)

\* Mutation of Replaced: the optimized file is dropped, the artifact kept.
ReplacedKeepsArtifact(f) == [f EXCEPT ![OptimizedPath] = Absent]

\* os.remove(gif_path); shutil.move(optimized_gif, gif_path)
Replaced(f) ==
    [f EXCEPT ![GifPath] = f[OptimizedPath], ![OptimizedPath] = Absent]

\* The second lossy pass ended.
OnLossy2(s, o, size) ==
    IF o = "fail" THEN HandlerFail(s, "giflossy_error")
    ELSE LET f == Written(s.fs, OptimizedPath, o, size)
         IN  IF Exists(f, OptimizedPath)
             THEN LET d == [s EXCEPT !.fs = f, !.optimized = f[OptimizedPath]]
                  IN  IF d.optimized > s.thr
                      THEN GReturn(d, d.optimized, s.original, TRUE)
                      ELSE FinalCheck([d EXCEPT !.fs = Replaced(f)])
             ELSE HandlerFail(s, "second_opt_failed")

\* Mutation of SecondPassInput: the second pass compresses the first
\* pass's output.
SecondPassInputOptimized == OptimizedPath

\* The file the second gifsicle --lossy run reads: /src/<gif_filename>.
SecondPassInput == GifPath

\* The first lossy pass ended.
OnLossy1(s, o, size) ==
    IF o = "fail" THEN HandlerFail(s, "giflossy_error")
    ELSE LET f == Written(s.fs, OptimizedPath, o, size)
         IN  IF Exists(f, OptimizedPath)
             THEN LET d == [s EXCEPT !.fs = f, !.optimized = f[OptimizedPath]]
                  IN  IF d.optimized > s.thr
                      THEN Run(d, "lossy2", LossySecond, SecondPassInput)
                      ELSE FinalCheck([d EXCEPT !.fs = Replaced(f)])
             ELSE HandlerFail(s, "opt_failed")

\* Mutation of SizeGate: an oversized GIF is optimized although -optimize
\* was not given.
SizeGateAutoOptimize(s) ==
    LET d == [s EXCEPT !.initial = s.fs[GifPath], !.thr = s.limit]
    IN  IF d.optimize \/ d.initial > d.thr
        THEN Run([d EXCEPT !.original = d.initial], "lossy1", LossyFirst,
                 GifPath)
        ELSE FinalCheck([d EXCEPT !.original = None])

\* Mutation of SizeGate: original_size is taken before "if optimize".
SizeGateOriginalFirst(s) ==
    LET d == [s EXCEPT !.initial = s.fs[GifPath], !.thr = s.limit]
    IN  IF d.initial > d.thr /\ ~d.optimize
        THEN GReturn(d, d.initial, None, TRUE)
        ELSE IF d.optimize
        THEN Run([d EXCEPT !.original = d.initial], "lossy1", LossyFirst,
                 GifPath)
        ELSE FinalCheck([d EXCEPT !.original = d.initial])

\* "Check initial size" and "Optimize if requested".
SizeGate(s) ==
    LET d == [s EXCEPT !.initial = s.fs[GifPath], !.thr = s.limit]
    IN  IF d.initial > d.thr /\ ~d.optimize
        THEN GReturn(d, d.initial, None, TRUE)
        ELSE IF d.optimize
        THEN Run([d EXCEPT !.original = d.initial], "lossy1", LossyFirst,
                 GifPath)
        ELSE FinalCheck([d EXCEPT !.original = None])

(* v2mp3_command, attachment branch: the ffmpeg run ended *)
MOnFfmpeg(s, o, size) ==
    IF o = "fail" THEN Finish(AddReport(s, "ffmpeg_error"))
    ELSE MDeliver([s EXCEPT !.fs = Written(@, Mp3Path, o, size),
                            !.paths = <<Mp3Path>>])

\* gifsicle --batch --delay rewrote the GIF in place (nitro).
OnDelay(s, o, size) ==
    IF o = "fail" THEN HandlerFail(s, "docker_failed")
    ELSE LET d == [s EXCEPT !.fs = Written(@, GifPath, o, size)]
         IN  IF s.cmd = "cg" THEN SizeGate(d) ELSE VDeliver(d)

\* "if speed != 1.0" after the encode: only the nitro variant rewrites the
\* frame delay; the unified variant put setpts into the encode filter.
AfterEncode(s) ==
    IF s.variant = "nitro" /\ s.speed # 1
    THEN IF ZeroDivision(s.speed) THEN HandlerFail(s, "zero_division")
         ELSE Run(s, "delay", 0, GifPath)
    ELSE IF s.cmd = "cg" THEN SizeGate(s) ELSE VDeliver(s)

\* The encode pass of convert_to_gif ended.
OnEncode(s, o, size) ==
    IF o = "fail" THEN HandlerFail(s, "ffmpeg_error")
    ELSE LET d == [s EXCEPT !.fs = Written(@, GifPath, o, size)]
         IN  IF Exists(d.fs, GifPath) THEN AfterEncode(d)
             ELSE HandlerFail(d, "gif_not_found")

\* The single ffmpeg run of v2g_command ended.
VOnFfmpeg(s, o, size) ==
    IF o = "fail" THEN HandlerFail(s, "docker_failed")
    ELSE LET d == [s EXCEPT !.fs = Written(@, GifPath, o, size)]
         IN  IF Exists(d.fs, GifPath) THEN AfterEncode(d)
             ELSE HandlerFail(d, "gif_not_found")

\* The encode pass is prepared and started: the unified variant writes
\* setpts={1/speed}*PTS into its filter when speed differs from 1.
Encode(s) ==
    IF s.variant = "unified" /\ s.speed # 1 /\ ZeroDivision(s.speed)
    THEN HandlerFail(s, "zero_division")
    ELSE Run(s, "encode", 0, InputPath)

\* Mutation of OnPalette: a failed palette pass is run once more.
OnPaletteRetry(s, o) ==
    IF o = "fail"
    THEN IF Len(s.hist.procs) < 2 THEN Run(s, "palette", 0, InputPath)
         ELSE HandlerFail(s, "docker_failed")
    ELSE LET d == [s EXCEPT !.fs = Written(@, PalettePath, o, 0)]
         IN  IF Exists(d.fs, PalettePath)
             THEN Encode(d)
             ELSE HandlerFail(d, "no_palette")

\* The palette pass ended.
OnPalette(s, o) ==
    IF o = "fail" THEN HandlerFail(s, "docker_failed")
    ELSE LET d == [s EXCEPT !.fs = Written(@, PalettePath, o, 0)]
         IN  IF Exists(d.fs, PalettePath)
             THEN Encode(d)
             ELSE HandlerFail(d, "no_palette")

\* convert_to_gif is entered with what download_from_cobalt returned: the
\* work files are removed, the video is copied to input.mp4 (copy2 raises
\* TypeError on a list) and the palette pass starts.
GifStart(s) ==
    LET f == Remove(Remove(Remove(s.fs, InputPath), PalettePath),
                    OptimizedPath)
    IN  IF s.isList THEN HandlerFail([s EXCEPT !.fs = f], "type_error")
        ELSE Run([s EXCEPT !.fs = [f EXCEPT ![InputPath] = f[s.paths[1]]]],
                 "palette", 0, InputPath)

\* v2g_command after its download: the ffmpeg parameters are built, before
\* the handler's try (the unified variant divides by speed here), and the
\* ffmpeg run starts.
VStart(s) ==
    IF s.variant = "unified" /\ s.speed # 1 /\ ZeroDivision(s.speed)
    THEN Crash(s, "zero_division")
    ELSE Run(s, "ffmpeg", 0, DirectPath)

\* v2mp3_command after the attachment download.
MStart(s) == Run(s, "ffmpeg", 0, DirectPath)

-----------------------------------------------------------------------------
(* download_from_cobalt and download_file, from the end back to the start *)

\* download_from_cobalt returned to the command handler.
FetchOk(s) ==
    LET d == [s EXCEPT !.hist.fetch = "ok"]
    IN  CASE s.cmd = "c" -> CDeliver(d)
          [] s.cmd = "cg" -> GifStart(d)
          [] OTHER -> IF d.isList THEN Crash(d, "type_error") ELSE MDeliver(d)

\* download_from_cobalt raised into the command handler.
FetchFail(s, kind) ==
    LET d == [s EXCEPT !.hist.fetch = kind]
    IN  IF s.cmd \in {"c", "cg"} THEN HandlerFail(d, kind)
        ELSE LET n == EditFailure(d, kind)
             IN  IF n.pc = "crashed" THEN n ELSE Finish(n)

\* Mutation of ConnFailure: the latch test is inverted.
ConnFailureInverted(s) ==
    IF s.variant = "nitro"
    THEN FetchFail([s EXCEPT !.hist.connLatch = IF s.latch THEN "set" ELSE "unset"],
                   IF s.latch THEN "setup" ELSE "intermittent")
    ELSE FetchFail(s, "conn_error")

\* "except aiohttp.ClientError" of download_from_cobalt.
ConnFailure(s) ==
    IF s.variant = "nitro"
    THEN FetchFail([s EXCEPT !.hist.connLatch = IF s.latch THEN "set" ELSE "unset"],
                   IF s.latch THEN "intermittent" ELSE "setup")
    ELSE FetchFail(s, "conn_error")

\* An exception raised inside the try of download_from_cobalt passes its two
\* except clauses: a ClientError is turned into the connection failure, any
\* other exception is raised again as it is.
RaiseInFetch(s, e) ==
    IF e = "client_error" THEN ConnFailure(s) ELSE FetchFail(s, e)

\* "if not downloaded_paths: raise ...; return downloaded_paths"
PickerEnd(s) ==
    IF s.paths = <<>> THEN RaiseInFetch(s, "no_items")
    ELSE FetchOk([s EXCEPT !.isList = TRUE])

\* The url parameter of download_from_cobalt: the source the user gave.
SourceUrl == "source_url"

\* cobalt_base_url: the configured address of the extraction service.
ServiceUrl == "service_url"

\* Mutation of Referer: the calls of download_from_cobalt pass the service
\* address.
RefererServiceUrl(ctx) ==
    IF ctx \in {"tunnel", "item", "audio"} THEN ServiceUrl ELSE "none"

\* The referer argument of each call of download_file: "referer=url" in
\* download_from_cobalt, none in v2g_command and v2mp3_command.
Referer(ctx) ==
    IF ctx \in {"tunnel", "item", "audio"} THEN SourceUrl ELSE "none"

\* await download_file(url, filename, referer): the first GET carries Range,
\* and Referer when the argument is given.
StartDownload(s, ctx, p) ==
    [s EXCEPT !.pc = "get", !.dlCtx = ctx, !.dlPath = p, !.dlRange = TRUE,
              !.dlAttempt = 0, !.hist.gets = <<TRUE>>, !.hist.answers = <<>>,
              !.hist.dl = "running", !.hist.referer = Referer(ctx)]

\* The slideshow audio, after the loop over the items.
AudioLeg(s) ==
    IF s.audio THEN StartDownload(s, "audio", AudioPath) ELSE PickerEnd(s)

\* The loop over picker_items from item s.idx on: an item without url is
\* skipped, the next one with a url is downloaded.
RECURSIVE PickerNext(_)
PickerNext(s) ==
    IF s.idx > Len(s.items) THEN AudioLeg(s)
    ELSE IF ~s.items[s.idx]
    THEN PickerNext([s EXCEPT !.idx = @ + 1,
                              !.hist.itemLog = Append(@, "nourl")])
    ELSE StartDownload(s, "item", ItemPath(s.idx))

\* The except clause around download_file in the tunnel and picker branches.
DownloadCause(e) ==
    CASE e = "http403" -> "denied403"
      [] e = "http429" -> "too_many"
      [] OTHER -> e

\* Mutation of AudioRaised: a failed audio download fails the fetch.
AudioRaisedFails(s, e) ==
    RaiseInFetch([s EXCEPT !.hist.audioLog = "fail"], DownloadCause(e))

\* The audio download raised: logged, the fetch goes on.
AudioRaised(s, e) == PickerEnd([s EXCEPT !.hist.audioLog = "fail"])

\* The download of a picker item raised: the exception is raised again
\* (as its cause for 403 and 429), which ends the loop and the fetch.
ItemRaised(s, e) ==
    RaiseInFetch([s EXCEPT !.hist.itemLog = Append(@, "fail")],
                 DownloadCause(e))

\* download_file raised to its caller.
DlRaise(s, e) ==
    LET d == [s EXCEPT !.hist.dl = "failed"]
    IN  CASE s.dlCtx = "tunnel" -> RaiseInFetch(d, DownloadCause(e))
          [] s.dlCtx = "item" -> ItemRaised(d, e)
          [] s.dlCtx = "audio" -> AudioRaised(d, e)
          [] OTHER -> LET n == EditFailure(d, "download_failed")
                      IN  IF n.pc = "crashed" THEN n ELSE Finish(n)

\* download_file returned file_path to its caller.
DlReturn(s) ==
    LET d == [s EXCEPT !.hist.dl = "ok"]
    IN  CASE s.dlCtx = "tunnel" ->
                FetchOk([d EXCEPT !.paths = <<s.dlPath>>, !.isList = FALSE])
          [] s.dlCtx = "item" ->
                PickerNext([d EXCEPT !.paths = Append(@, s.dlPath),
                                     !.hist.itemLog = Append(@, "ok"),
                                     !.idx = @ + 1])
          [] s.dlCtx = "audio" ->
                PickerEnd([d EXCEPT !.paths = Append(@, s.dlPath),
                                    !.hist.audioLog = "ok"])
          [] OTHER -> IF s.cmd = "v2g" THEN VStart(d) ELSE MStart(d)

GetOutcomes == {"ok", "zero", "s403", "s429", "sOther", "neterr"}

\* The script reads the size of a downloaded file only when it delivers that
\* file itself (cobalt_command, v2mp3_command by url); the size of a file
\* that is handed to the transcoder is never read, and one size stands for
\* all of them.
GetSizes(s) ==
    IF s.cmd = "c" \/ (s.cmd = "v2mp3" /\ s.dlCtx # "direct") THEN Sizes
    ELSE {8}

\* Mutation of Retry403: the retry is sent with the Range header kept.
Retry403KeepsRange(s) ==
    [s EXCEPT !.dlAttempt = 1, !.hist.gets = Append(@, TRUE)]

\* "headers.pop("Range", None); continue": the next round of the loop sends
\* the GET again without Range.
Retry403(s) ==
    [s EXCEPT !.dlRange = FALSE, !.dlAttempt = 1,
              !.hist.gets = Append(@, FALSE)]

\* One GET of download_file was answered.
OnGet(s, o, size) ==
    LET d == [s EXCEPT !.hist.answers = Append(@, o)]
    IN  CASE o = "ok" -> DlReturn([d EXCEPT !.fs[s.dlPath] = size])
          [] o = "zero" -> DlRaise([d EXCEPT !.fs[s.dlPath] = 0], "zero_bytes")
          [] o = "s403" ->
                IF s.dlAttempt = 0 /\ s.dlRange THEN Retry403(d)
                ELSE DlRaise(d, "http403")
          [] o = "s429" -> DlRaise(d, "http429")
          [] o = "sOther" -> DlRaise(d, "http_other")
          [] OTHER -> DlRaise(d, IF s.variant = "nitro" THEN "client_error"
                                 ELSE "network_error")

\* Answers to the POST: no answer (ClientError), or an HTTP status with a
\* body that is not JSON or is JSON with these fields.
ItemLists == UNION {[1..n -> BOOLEAN] : n \in 0..MaxItems}

NoAnswer ==
    [kind |-> "neterr", http |-> 0, json |-> FALSE, status |-> "none",
     code |-> "none", url |-> FALSE, items |-> <<>>, audio |-> FALSE]

PostAnswers ==
    {NoAnswer}
    \cup {[NoAnswer EXCEPT !.kind = "response", !.http = h] : h \in {200, 500}}
    \cup {[NoAnswer EXCEPT !.kind = "response", !.http = h, !.json = TRUE,
                           !.status = "error", !.code = c] :
            h \in {200, 400, 500},
            c \in {"invalid", "unsupported", "private", "other"}}
    \cup {[NoAnswer EXCEPT !.kind = "response", !.http = 200, !.json = TRUE,
                           !.status = st, !.url = u] :
            st \in {"tunnel", "redirect"}, u \in BOOLEAN}
    \cup {[NoAnswer EXCEPT !.kind = "response", !.http = 200, !.json = TRUE,
                           !.status = "picker", !.items = it, !.audio = a] :
            it \in ItemLists, a \in BOOLEAN}
    \cup {[NoAnswer EXCEPT !.kind = "response", !.http = 200, !.json = TRUE,
                           !.status = "other"]}

\* The user-facing cause of an error answer's code.
ApiCause(code) ==
    CASE code = "invalid" -> "api_invalid"
      [] code = "unsupported" -> "api_unsupported"
      [] code = "private" -> "api_private"
      [] OTHER -> "api_other"

\* Mutation of Contacted: the latch follows the status of the latest
\* response.
ContactedTracksStatus(s, r) ==
    IF s.variant = "nitro"
    THEN [s EXCEPT !.latch = (r.http = 200),
                   !.hist.contact = @ \/ r.http = 200,
                   !.hist.sinceReset = @ \/ r.http = 200,
                   !.hist.answered = TRUE]
    ELSE s

\* A response arrived: the nitro variant sets the latch.
Contacted(s, r) ==
    IF s.variant = "nitro"
    THEN [s EXCEPT !.latch = TRUE,
                   !.hist.contact = @ \/ r.http = 200,
                   !.hist.sinceReset = @ \/ r.http = 200,
                   !.hist.answered = TRUE]
    ELSE s

\* The POST to the extraction service was answered.
OnPost(s, r) ==
    IF r.kind = "neterr" THEN ConnFailure(s)
    ELSE LET c == Contacted(s, r)
             d == IF r.json /\ r.status = "error"
                  THEN [c EXCEPT !.hist.apiError = r.code, !.hist.apiHttp = r.http]
                  ELSE c
         IN  IF ~r.json THEN RaiseInFetch(d, "invalid_json")
             ELSE IF r.http = 200
             THEN CASE r.status = "error" -> RaiseInFetch(d, ApiCause(r.code))
                    [] r.status \in {"tunnel", "redirect"} ->
                          IF r.url THEN StartDownload(d, "tunnel", DlPath)
                          ELSE RaiseInFetch(d, "no_url")
                    [] r.status = "picker" ->
                          IF r.items = <<>> THEN RaiseInFetch(d, "empty_picker")
                          ELSE PickerNext([d EXCEPT !.items = r.items,
                                                    !.audio = r.audio,
                                                    !.idx = 1, !.paths = <<>>])
                    [] OTHER -> RaiseInFetch(d, "unknown_status")
             ELSE IF r.http = 400 THEN RaiseInFetch(d, "http400")
             ELSE RaiseInFetch(d, "http_status")

\* download_from_cobalt is called: the url is validated, then POSTed.
CallFetch(s, valid) ==
    IF ~valid THEN FetchFail(s, "invalid_url")
    ELSE [s EXCEPT !.pc = "post", !.hist.posts = @ + 1]

-----------------------------------------------------------------------------
(* The command handlers up to their first await *)

\* The locals of a handler that is not running.
Idle(s) ==
    [s EXCEPT !.pc = "idle", !.cmd = "none", !.optimize = FALSE,
              !.speed = 1, !.fs = EmptyFs,
              !.msg = "none", !.items = <<>>, !.audio = FALSE, !.idx = 0,
              !.dlCtx = "none", !.dlPath = DlPath, !.dlRange = FALSE,
              !.dlAttempt = 0, !.paths = <<>>, !.isList = FALSE,
              !.thr = None, !.initial = None, !.original = None,
              !.optimized = None, !.ret = NoRet, !.qi = 0,
              !.hist = [EmptyHist EXCEPT !.contact = s.hist.contact,
                                         !.sinceReset = s.hist.sinceReset,
                                         !.answered = s.hist.answered]]

\* A new invocation: its files have fresh names or are written before they
\* are read, so it starts from an empty view of the download directory.
NewRequest(s, c, opt, sp) ==
    [s EXCEPT !.cmd = c, !.optimize = opt, !.speed = sp]

\* What the user gave: a url in the arguments, a video attachment, arguments
\* without a url ("empty"), or no arguments at all; in the last case
\* v2g_command looks at the previous message of the channel, which holds a
\* video ("prev") or nothing it can use ("noargs").
Source(s, src) ==
    [s EXCEPT !.hist.src = CASE src \in {"url", "attachment"} -> "given"
                             [] OTHER -> src]

TwitterCom == <<"t", "w", "i", "t", "t", "e", "r", ".", "c", "o", "m">>

XCom == <<"x", ".", "c", "o", "m">>

\* The urls a v2g request is tried with, each with whether its host is on
\* one of the two domains: hosts are matched whatever their letter case,
\* and a host that merely ends in the letters "x.com" is another domain.
V2GUrls ==
    {[text |-> TwitterCom \o <<"/", "v">>, onTwitter |-> TRUE],
     [text |-> XCom \o <<"/", "v">>, onTwitter |-> TRUE],
     [text |-> <<"X", ".", "C", "o", "m", "/", "v">>, onTwitter |-> TRUE],
     [text |-> <<"m", ".">> \o TwitterCom \o <<"/", "v">>, onTwitter |-> TRUE],
     [text |-> <<"b", "o">> \o XCom \o <<"/", "v">>, onTwitter |-> FALSE],
     [text |-> <<"c", "d", "n", ".", "n", "e", "t", "/", "v">>, onTwitter |-> FALSE]}

\* str.lower(), on the letters the urls above are written with.
Lower(str) ==
    [i \in 1..Len(str) |->
        CASE str[i] = "X" -> "x"
          [] str[i] = "C" -> "c"
          [] OTHER -> str[i]]

\* "sub in str"
Contains(str, sub) ==
    \E i \in 1..(Len(str) - Len(sub) + 1) :
        SubSeq(str, i, i + Len(sub) - 1) = sub

\* Mutation of Unsupported: the url is tested as typed.
UnsupportedAsTyped(url) ==
    \E d \in {TwitterCom, XCom} : Contains(url, d)

\* any(domain in url_to_download.lower() for domain in ['twitter.com', 'x.com'])
Unsupported(url) ==
    \E d \in {TwitterCom, XCom} : Contains(Lower(url), d)

\* ctx.send(<what is missing>); return
Reject(s, why) == Finish(AddReport(s, why))

\* msg = await ctx.send("processing ...")
Progress(s) == [s EXCEPT !.msg = "live"]

\* cobalt_command
BeginC(s, src, valid) ==
    LET d == Source(NewRequest(s, "c", FALSE, 1), src)
    IN  IF src = "empty" THEN Reject(d, "usage")
        ELSE CallFetch(Progress(d), valid)

\* cobalt_gif_command
BeginCG(s, src, valid, opt, sp) ==
    LET d == Source(NewRequest(s, "cg", opt, sp), src)
    IN  IF src = "empty" THEN Reject(d, "usage")
        ELSE CallFetch(Progress(d), valid)

\* v2g_command: without arguments it turns to the previous message and
\* returns without a word when that holds no video; the options of a
\* request taken from the previous message are the defaults.
BeginV2G(s, src, u, opt, sp) ==
    LET n == Source(NewRequest(s, "v2g", opt, sp), src)
        d == IF src = "url" THEN [n EXCEPT !.hist.onTwitter = u.onTwitter] ELSE n
    IN  CASE src = "noargs" -> Finish(d)
          [] src = "empty" -> Reject(d, "usage")
          [] src = "url" /\ Unsupported(u.text) -> Reject(d, "unsupported_domain")
          [] OTHER -> StartDownload(Progress(d), "direct", DirectPath)

\* v2mp3_command (nitro)
BeginV2MP3(s, src, valid) ==
    LET d == Source(NewRequest(s, "v2mp3", FALSE, 1), src)
    IN  CASE src = "empty" -> Reject(d, "usage")
          [] src = "attachment" ->
                StartDownload(Progress(d), "direct", DirectPath)
          [] OTHER -> CallFetch(Progress(d), valid)

-----------------------------------------------------------------------------
(* handle_config_command *)

\* "limit <size_mb>": a value that is not positive is refused.
ConfigLimit(s, v) == IF v <= 0 THEN s ELSE [s EXCEPT !.limit = v]

\* "persistent"
ConfigPersistent(s) == [s EXCEPT !.persistent = ~@]

\* "resetsetup" (nitro)
ConfigResetSetup(s) ==
    [s EXCEPT !.latch = FALSE, !.hist.sinceReset = FALSE,
              !.hist.answered = FALSE]

\* Answers to the GET of the status probe: 200 with the server info, 200
\* with a body response.json() cannot read, another status, no answer.
StatusOutcomes == {"http200", "http200_nojson", "httpOther", "neterr"}

\* "status": the probe of the service.  The nitro variant sets the latch
\* after it has read the body of an answer with status 200; on any other
\* answer the latch stays as it is.
ConfigStatus(s, o) ==
    IF s.variant # "nitro" THEN s
    ELSE CASE o = "http200" ->
                [s EXCEPT !.latch = TRUE, !.hist.contact = TRUE,
                          !.hist.sinceReset = TRUE, !.hist.answered = TRUE]
           [] o \in {"http200_nojson", "httpOther"} ->
                [s EXCEPT !.hist.answered = TRUE]
           [] OTHER -> s

-----------------------------------------------------------------------------
(* The state machine *)

(* Two calls of convert_to_gif that overlap: every await of one call lets   *)
(* the other run.  The external process of a stage does its reading and    *)
(* writing in one step and the handler resumes in a later one.  Sizes are  *)
(* left out: every GIF passes the size checks.                             *)

\* The two calls; call r converts video r.
Reqs == {1, 2}

\* input.mp4, palette.png and optimized.gif.
WorkNames == {"input", "palette", "optimized"}

\* Mutation of WorkFile: each call has a directory of its own.
WorkFilePerCall(r, name) == <<r, name>>

\* os.path.join(work_dir, name): work_dir is <download path>/workdir for
\* every call (0: no part of the path belongs to the call).
WorkFile(r, name) == <<0, name>>

\* No file in the work directory (0: absent, else the call that wrote it).
EmptyWork == [f \in (0..2) \X WorkNames |-> 0]

NoCall == [pc |-> "idle", optimize |-> FALSE, exit |-> "none", gif |-> 0]

\* The accesses of call r to files f that another call wrote.
Foreign(w, r, names, op) ==
    {[by |-> r, file |-> n, op |-> op] :
        n \in {m \in names : w[WorkFile(r, m)] \notin {0, r}}}

\* convert_to_gif up to its first await: the four work files are removed,
\* the video is copied to input.mp4 and the palette process is started.
CEnter(r) ==
    /\ conc[r].pc = "idle"
    /\ \E opt \in BOOLEAN :
          conc' = [conc EXCEPT ![r] = [pc |-> "palette", optimize |-> opt,
                                       exit |-> "pending", gif |-> 0]]
    /\ work' = [f \in DOMAIN work |->
                  IF f = WorkFile(r, "input") THEN r
                  ELSE IF f \in {WorkFile(r, n) : n \in WorkNames} THEN 0
                  ELSE work[f]]
    /\ foreign' = foreign \cup Foreign(work, r, WorkNames, "delete")
    /\ lastIn' = r
    /\ UNCHANGED <<pvars, avars, xvars>>

\* The process the call waits for runs and exits: ffmpeg palettegen reads
\* input.mp4 and writes palette.png; the encode reads input.mp4 and
\* palette.png and writes the call's GIF (named after the video and the
\* time); gifsicle reads that GIF and writes optimized.gif.  A process
\* that misses an input exits non-zero.
CProcess(r) ==
    LET c == conc[r]
        reads == CASE c.pc = "palette" -> {"input"}
                   [] c.pc = "encode" -> {"input", "palette"}
                   [] OTHER -> {}
        present == \A n \in reads : work[WorkFile(r, n)] # 0
    IN  /\ c.pc \in {"palette", "encode", "lossy"}
        /\ c.exit = "pending"
        /\ \E o \in {"ok", "fail"} :
              IF o = "ok" /\ present
              THEN /\ conc' = [conc EXCEPT ![r].exit = "ok",
                                           ![r].gif = IF c.pc = "encode"
                                                      THEN work[WorkFile(r, "input")]
                                                      ELSE @]
                   /\ work' = CASE c.pc = "palette" ->
                                      [work EXCEPT ![WorkFile(r, "palette")] = r]
                                 [] c.pc = "lossy" ->
                                      [work EXCEPT ![WorkFile(r, "optimized")] = r]
                                 [] OTHER -> work
                   /\ foreign' = foreign \cup Foreign(work, r, reads, "read")
              ELSE /\ conc' = [conc EXCEPT ![r].exit = "fail"]
                   /\ UNCHANGED <<work, foreign>>
        /\ UNCHANGED <<lastIn, pvars, avars, xvars>>

\* The clean-up at the end of convert_to_gif: input.mp4 and palette.png are
\* removed and the call returns.
CFinal(r, w, log) ==
    /\ conc' = [conc EXCEPT ![r].pc = "done", ![r].exit = "none"]
    /\ work' = [f \in DOMAIN w |->
                  IF f \in {WorkFile(r, "input"), WorkFile(r, "palette")}
                  THEN 0 ELSE w[f]]
    /\ foreign' = log \cup Foreign(w, r, {"input", "palette"}, "delete")

\* The handler resumes after the await: run_docker_cmd raises on a non-zero
\* exit; after the palette pass palette.png must exist; after the lossy
\* pass optimized.gif must exist and is moved over the GIF.
CResume(r) ==
    LET c == conc[r]
        failed == /\ conc' = [conc EXCEPT ![r].pc = "failed", ![r].exit = "none"]
                  /\ UNCHANGED <<work, foreign>>
        start(stage) == /\ conc' = [conc EXCEPT ![r].pc = stage,
                                                 ![r].exit = "pending"]
                        /\ UNCHANGED <<work, foreign>>
    IN  /\ c.exit \in {"ok", "fail"}
        /\ CASE c.exit = "fail" -> failed
              [] c.pc = "palette" ->
                    IF work[WorkFile(r, "palette")] = 0 THEN failed
                    ELSE start("encode")
              [] c.pc = "encode" ->
                    IF c.optimize THEN start("lossy") ELSE CFinal(r, work, foreign)
              [] OTHER ->
                    IF work[WorkFile(r, "optimized")] = 0 THEN failed
                    ELSE CFinal(r, [work EXCEPT ![WorkFile(r, "optimized")] = 0],
                                foreign \cup Foreign(work, r, {"optimized"}, "read"))
        /\ UNCHANGED <<lastIn, pvars, avars, xvars>>

ConcNext ==
    \/ \E r \in Reqs : CEnter(r)
    \/ \E r \in Reqs : CProcess(r)
    \/ \E r \in Reqs : CResume(r)

-----------------------------------------------------------------------------
-----------------------------------------------------------------------------
(* Argument strings: parse_cobalt_args, parse_gif_args, parse_v2g_args and
   parse_v2mp3_args.  A string is a sequence of characters; the regular
   expressions of the parsers are evaluated on it as Python's re does. *)

DigitChars == {"0", "1", "2", "3", "4", "5", "6", "7", "8", "9"}

DigitVal(c) ==
    CASE c = "0" -> 0 [] c = "1" -> 1 [] c = "2" -> 2 [] c = "3" -> 3
      [] c = "4" -> 4 [] c = "5" -> 5 [] c = "6" -> 6 [] c = "7" -> 7
      [] c = "8" -> 8 [] c = "9" -> 9

\* The characters of the strings tried that \w does not match.
NonWordChars == {"-", "=", ".", ":", " "}

Highest(ns) == CHOOSE n \in ns : \A m \in ns : m <= n

Lowest(ns) == CHOOSE n \in ns : \A m \in ns : n <= m

\* s has t at position p.
StartsAt(s, p, t) ==
    /\ p + Len(t) - 1 <= Len(s)
    /\ \A k \in 1..Len(t) : s[p + k - 1] = t[k]

\* Length of the longest run of characters of cs that s has at position p
\* (what a greedy \d* or \w* takes).
RunLen(s, p, cs) ==
    Highest({n \in 0..(Len(s) + 1 - p) :
                \A k \in p..(p + n - 1) : s[k] \in cs})

\* ... and of characters outside cs.
RunLenNot(s, p, cs) ==
    Highest({n \in 0..(Len(s) + 1 - p) :
                \A k \in p..(p + n - 1) : s[k] \notin cs})

\* int(<digits>)
RECURSIVE IntOf(_)
IntOf(ds) ==
    IF ds = <<>> THEN 0
    ELSE 10 * IntOf(SubSeq(ds, 1, Len(ds) - 1)) + DigitVal(ds[Len(ds)])

RECURSIVE Pow10(_)
Pow10(n) == IF n = 0 THEN 1 ELSE 10 * Pow10(n - 1)

NoMatch == [ok |-> FALSE, n |-> 0, d |-> 1, len |-> 0]

\* \d*\.?\d+ (whole true) or \d+(?:\.\d+)? (whole false) matched at position
\* p: the decimal number n/d it spells and the length taken.  "2." and "2x"
\* give 2, "1.2.3" gives 1.2, ".5" is taken by the first pattern only.
Decimal(s, p, fractionOnly) ==
    LET a == RunLen(s, p, DigitChars)
        dot == p + a <= Len(s) /\ s[p + a] = "."
        b == IF dot THEN RunLen(s, p + a + 1, DigitChars) ELSE 0
    IN  IF b > 0 /\ (a > 0 \/ fractionOnly)
        THEN [ok |-> TRUE,
              n |-> IntOf(SubSeq(s, p, p + a - 1)) * Pow10(b)
                    + IntOf(SubSeq(s, p + a + 1, p + a + b)),
              d |-> Pow10(b), len |-> a + 1 + b]
        ELSE IF a > 0
        THEN [ok |-> TRUE, n |-> IntOf(SubSeq(s, p, p + a - 1)), d |-> 1,
              len |-> a]
        ELSE NoMatch

\* re.search(<flag>(\d+), s): the digits of the leftmost match, <<>> if
\* there is none.
SearchDigits(s, flag) ==
    LET at == {p \in 1..Len(s) :
                  /\ StartsAt(s, p, flag)
                  /\ RunLen(s, p + Len(flag), DigitChars) > 0}
    IN  IF at = {} THEN <<>>
        ELSE LET v == Lowest(at) + Len(flag)
             IN  SubSeq(s, v, v + RunLen(s, v, DigitChars) - 1)

\* re.search(r'-speed=(\d*\.?\d+)', s)
SearchSpeed(s) ==
    LET flag == <<"-", "s", "p", "e", "e", "d", "=">>
        at == {p \in 1..Len(s) :
                  /\ StartsAt(s, p, flag)
                  /\ Decimal(s, p + Len(flag), TRUE).ok}
    IN  IF at = {} THEN NoMatch
        ELSE Decimal(s, Lowest(at) + Len(flag), TRUE)

\* -time=(\d+(?:\.\d+)?)-(\d+(?:\.\d+)?) matched at position p.
TimeAt(s, p) ==
    LET flag == <<"-", "t", "i", "m", "e", "=">>
        a == Decimal(s, p + Len(flag), FALSE)
        q == p + Len(flag) + a.len
        b == Decimal(s, q + 1, FALSE)
    IN  IF /\ StartsAt(s, p, flag)
           /\ a.ok
           /\ q <= Len(s)
           /\ s[q] = "-"
           /\ b.ok
        THEN <<[n |-> a.n, d |-> a.d], [n |-> b.n, d |-> b.d]>>
        ELSE <<>>

\* time_match: <<start, end>> of the leftmost match, <<>> if there is none.
SearchTime(s) ==
    LET at == {p \in 1..Len(s) : TimeAt(s, p) # <<>>}
    IN  IF at = {} THEN <<>> ELSE TimeAt(s, Lowest(at))

\* re.search(<flag>, s) of a flag without a value.
Found(s, flag) == \E p \in 1..Len(s) : StartsAt(s, p, flag)

\* re.sub(r'-(\w+)=(\w+)', r'-\1 \2', s) and, in the nitro variant,
\* re.sub(r'-(\w+)=(\S+)', r'-\1 \2', s), from position p on.
RECURSIVE Normalize(_, _, _)
Normalize(v, s, p) ==
    IF p > Len(s) THEN <<>>
    ELSE LET n == RunLenNot(s, p + 1, NonWordChars)
             e == p + 1 + n
             m == IF e > Len(s) THEN 0
                  ELSE IF v = "nitro" THEN RunLenNot(s, e + 1, {" "})
                  ELSE RunLenNot(s, e + 1, NonWordChars)
         IN  IF s[p] = "-" /\ n > 0 /\ e <= Len(s) /\ s[e] = "=" /\ m > 0
             THEN SubSeq(s, p, e - 1) \o <<" ">> \o SubSeq(s, e + 1, e + m)
                  \o Normalize(v, s, e + m + 1)
             ELSE <<s[p]>> \o Normalize(v, s, p + 1)

\* s.split(), from position p on.
RECURSIVE Split(_, _)
Split(s, p) ==
    IF p > Len(s) THEN <<>>
    ELSE IF s[p] = " " THEN Split(s, p + 1)
    ELSE LET n == RunLenNot(s, p, {" "})
         IN  <<SubSeq(s, p, p + n - 1)>> \o Split(s, p + n)

\* ' '.join(ws)
RECURSIVE Join(_)
Join(ws) ==
    IF ws = <<>> THEN <<>>
    ELSE IF Len(ws) = 1 THEN ws[1]
    ELSE ws[1] \o <<" ">> \o Join(Tail(ws))

\* s.strip()
Strip(s) ==
    LET a == RunLen(s, 1, {" "})
        keep == {n \in a..Len(s) : n = a \/ s[n] # " "}
    IN  SubSeq(s, a + 1, Highest(keep))

\* s.replace(t, ""), from position p on.
RECURSIVE Replace(_, _, _)
Replace(s, t, p) ==
    IF p > Len(s) THEN <<>>
    ELSE IF StartsAt(s, p, t) THEN Replace(s, t, p + Len(t))
    ELSE <<s[p]>> \o Replace(s, t, p + 1)

\* re.match(r'-(\d+)p$', w): the digits, <<>> without a match.
QualityFlag(w) ==
    LET n == IF w # <<>> /\ w[1] = "-" THEN RunLen(w, 2, DigitChars) ELSE 0
    IN  IF n > 0 /\ Len(w) = n + 2 /\ w[n + 2] = "p"
        THEN SubSeq(w, 2, n + 1) ELSE <<>>

\* The defaults of parse_cobalt_args.
DefaultQuality == <<"1", "0", "8", "0">>

DefaultAudio == <<"m", "p", "3">>

DefaultMode == <<"a", "u", "t", "o">>

AudioFlags ==
    {<<"-", "w", "a", "v">>, <<"-", "o", "g", "g">>,
     <<"-", "o", "p", "u", "s">>, <<"-", "b", "e", "s", "t">>}

ModeFlags == {<<"-", "a", "u", "d", "i", "o">>, <<"-", "m", "u", "t", "e">>}

\* words[i][1:], which the nitro variant overwrites with words[i][2:].
FlagValue(v, w) == IF v = "nitro" THEN Tail(Tail(w)) ELSE Tail(w)

\* The flag loop "while i < len(words)" of parse_cobalt_args; d holds
\* quality, audio and mode.
RECURSIVE FlagLoop(_, _, _, _)
FlagLoop(v, words, i, d) ==
    IF i > Len(words) THEN d
    ELSE LET w == words[i]
             more == i + 1 <= Len(words)
         IN  IF QualityFlag(w) # <<>>
             THEN FlagLoop(v, words, i + 1,
                           [d EXCEPT !.quality_provided = TRUE,
                                     !.quality = QualityFlag(w)])
             ELSE IF w = <<"-", "m", "a", "x">>
             THEN FlagLoop(v, words, i + 1, [d EXCEPT !.quality_provided = TRUE,
                                     !.quality = <<"m", "a", "x">>])
             ELSE IF w \in AudioFlags
             THEN FlagLoop(v, words, i + 1,
                           [d EXCEPT !.audio_provided = TRUE,
                                     !.audio = FlagValue(v, w)])
             ELSE IF w \in ModeFlags
             THEN FlagLoop(v, words, i + 1,
                           [d EXCEPT !.mode_provided = TRUE,
                                     !.mode = FlagValue(v, w)])
             ELSE IF w = <<"-", "q", "u", "a", "l", "i", "t", "y">> /\ more
             THEN FlagLoop(v, words, i + 2,
                           [d EXCEPT !.quality_provided = TRUE,
                                     !.quality = words[i + 1]])
             ELSE IF w = <<"-", "a", "u", "d", "i", "o">> /\ more
             THEN FlagLoop(v, words, i + 2,
                           [d EXCEPT !.audio_provided = TRUE,
                                     !.audio = words[i + 1]])
             ELSE IF w = <<"-", "m", "o", "d", "e">> /\ more
             THEN FlagLoop(v, words, i + 2,
                           [d EXCEPT !.mode_provided = TRUE,
                                     !.mode = words[i + 1]])
             ELSE FlagLoop(v, words, i + 1, d)

\* Number of leading words that do not start with "-": the url.
UrlWords(words) ==
    Highest({n \in 0..Len(words) : \A k \in 1..n : words[k][1] # "-"})

parse_cobalt_args(v, s) ==
    LET words == Split(Normalize(v, s, 1), 1)
        n == UrlWords(words)
        d == FlagLoop(v, words, n + 1,
                      [quality |-> DefaultQuality, audio |-> DefaultAudio,
                       mode |-> DefaultMode, quality_provided |-> FALSE,
                       audio_provided |-> FALSE, mode_provided |-> FALSE])
    IN  [by |-> "parse_cobalt_args",
         url |-> Strip(Join(SubSeq(words, 1, n))),
         quality |-> d.quality, audio |-> d.audio, mode |-> d.mode,
         quality_provided |-> d.quality_provided,
         audio_provided |-> d.audio_provided,
         mode_provided |-> d.mode_provided]

\* "if match and match.group(0) in url: url = url.replace(...).strip()" for
\* -optimize.  In the strings tried no other match is part of the url: a
\* flag glued to the url with a value lost its "=" in the substitution.
WithoutFlag(url, s, flag) ==
    IF Found(s, flag) /\ Found(url, flag) THEN Strip(Replace(url, flag, 1))
    ELSE url

DefaultFps == 15

\* Mutation of Fps: a value of zero is not taken.
FpsPositive(s) ==
    LET ds == SearchDigits(s, <<"-", "f", "p", "s", "=">>)
    IN  IF ds = <<>> \/ IntOf(ds) = 0 THEN DefaultFps ELSE IntOf(ds)

\* "fps": int(fps_match.group(1)) if fps_match else 15
Fps(s) ==
    LET ds == SearchDigits(s, <<"-", "f", "p", "s", "=">>)
    IN  IF ds = <<>> THEN DefaultFps ELSE IntOf(ds)

One == [n |-> 1, d |-> 1]

\* "speed": float(speed_match.group(1)) if speed_match else 1.0
Speed(s) ==
    LET m == SearchSpeed(s)
    IN  IF m.ok THEN [n |-> m.n, d |-> m.d] ELSE One

DefaultScale == <<"4", "8", "0", ":", "-", "1">>

\* re.search(r'-scale=(\d+:-1)', s) and "scale": its group, else "480:-1".
Scale(s) ==
    LET flag == <<"-", "s", "c", "a", "l", "e", "=">>
        tail == <<":", "-", "1">>
        at == {p \in 1..Len(s) :
                  LET v == p + Len(flag)
                      n == RunLen(s, v, DigitChars)
                  IN  /\ StartsAt(s, p, flag)
                      /\ n > 0
                      /\ StartsAt(s, v + n, tail)}
    IN  IF at = {} THEN DefaultScale
        ELSE LET v == Lowest(at) + Len(flag)
             IN  SubSeq(s, v, v + RunLen(s, v, DigitChars) + Len(tail) - 1)

parse_gif_args(v, s) ==
    LET c == parse_cobalt_args(v, s)
    IN  [by |-> "parse_gif_args",
         url |-> Strip(WithoutFlag(c.url, s, <<"-", "o", "p", "t", "i", "m", "i", "z", "e">>)),
         quality |-> c.quality, audio |-> c.audio, mode |-> c.mode,
         quality_provided |-> c.quality_provided,
         audio_provided |-> c.audio_provided,
         mode_provided |-> c.mode_provided,
         fps |-> Fps(s), scale |-> Scale(s), time |-> SearchTime(s),
         optimize |-> Found(s, <<"-", "o", "p", "t", "i", "m", "i", "z", "e">>), speed |-> Speed(s)]

\* re.search(r'-(\d+)p', s): unlike the quality flag of parse_cobalt_args
\* the pattern is not anchored.
SearchQuality(s) ==
    LET at == {p \in 1..Len(s) :
                  LET n == RunLen(s, p + 1, DigitChars)
                  IN  /\ s[p] = "-"
                      /\ n > 0
                      /\ p + n + 1 <= Len(s)
                      /\ s[p + n + 1] = "p"}
    IN  IF at = {} THEN DefaultQuality
        ELSE LET p == Lowest(at)
             IN  SubSeq(s, p + 1, p + RunLen(s, p + 1, DigitChars))

\* re.search(r'-dither=(\w+)', s) and "dither".
Dither(s) ==
    LET flag == <<"-", "d", "i", "t", "h", "e", "r", "=">>
        at == {p \in 1..Len(s) :
                  /\ StartsAt(s, p, flag)
                  /\ RunLenNot(s, p + Len(flag), NonWordChars) > 0}
    IN  IF at = {} THEN <<"b", "a", "y", "e", "r", ":", "b", "a", "y", "e", "r", "_", "s", "c", "a", "l", "e", "=", "5">>
        ELSE LET v == Lowest(at) + Len(flag)
             IN  SubSeq(s, v, v + RunLenNot(s, v, NonWordChars) - 1)

parse_v2g_args(v, s) ==
    LET c == parse_cobalt_args(v, s)
        loop == SearchDigits(s, <<"-", "l", "o", "o", "p", "=">>)
        colors == SearchDigits(s, <<"-", "c", "o", "l", "o", "r", "s", "=">>)
    IN  [by |-> "parse_v2g_args",
         url |-> Strip(WithoutFlag(c.url, s, <<"-", "o", "p", "t", "i", "m", "i", "z", "e">>)),
         fps |-> Fps(s), scale |-> Scale(s), time |-> SearchTime(s),
         optimize |-> Found(s, <<"-", "o", "p", "t", "i", "m", "i", "z", "e">>), quality |-> SearchQuality(s),
         loop |-> IF loop = <<>> THEN 0 ELSE IntOf(loop),
         dither |-> Dither(s),
         colors |-> IF colors = <<>> THEN 256 ELSE IntOf(colors),
         speed |-> Speed(s)]

\* parse_v2mp3_args exists in the nitro variant only.
parse_v2mp3_args(v, s) ==
    LET c == parse_cobalt_args(v, s)
    IN  [by |-> "parse_v2mp3_args", url |-> Strip(c.url),
         quality |-> c.quality, time |-> SearchTime(s)]

\* Most flags an argument string tried holds.
MaxFlags == 2

\* What stands before the flags: nothing, a url, and urls that hold a flag
\* or the pattern of a flag with a value.
UrlInputs ==
    {<<>>, <<"u">>, <<"u", "-", "o", "p", "t", "i", "m", "i", "z", "e">>,
     <<"u", "-", "a", "=", "b">>}

\* The words tried after it: flags, and one word that is no flag.
FlagInputs ==
    {<<"f", "o", "o">>, <<"-", "q", "u", "a", "l", "i", "t", "y">>,
     <<"-", "f", "p", "s", "=", "0">>, <<"-", "f", "p", "s", "=", "8">>,
     <<"-", "f", "p", "s", "=", "1", "5">>,
     <<"-", "f", "p", "s", "=", "1", "2", "a", "b", "c">>,
     <<"-", "f", "p", "s", "=", "a", "b", "c">>,
     <<"-", "s", "p", "e", "e", "d", "=", "0">>,
     <<"-", "s", "p", "e", "e", "d", "=", "2">>,
     <<"-", "s", "p", "e", "e", "d", "=", "5">>,
     <<"-", "s", "p", "e", "e", "d", "=", "2", "0">>,
     <<"-", "s", "p", "e", "e", "d", "=", ".", "5">>,
     <<"-", "s", "p", "e", "e", "d", "=", "2", "x">>,
     <<"-", "s", "p", "e", "e", "d", "=", "x">>,
     <<"-", "t", "i", "m", "e", "=", "1", "0", "-", "3", "0">>,
     <<"-", "t", "i", "m", "e", "=", "3", "0", "-", "1", "0">>,
     <<"-", "t", "i", "m", "e", "=", "5", "-", "5">>,
     <<"-", "t", "i", "m", "e", "=", "1", ".", "5", "-", "3">>,
     <<"-", "t", "i", "m", "e", "=", "a", "-", "b">>,
     <<"-", "o", "p", "t", "i", "m", "i", "z", "e">>, <<"-", "w", "a", "v">>,
     <<"-", "o", "g", "g">>, <<"-", "o", "p", "u", "s">>,
     <<"-", "b", "e", "s", "t">>, <<"-", "a", "u", "d", "i", "o">>,
     <<"-", "m", "u", "t", "e">>,
     <<"-", "m", "o", "d", "e", "=", "f", "o", "o">>,
     <<"-", "m", "o", "d", "e">>, <<"-", "7", "2", "0", "p">>,
     <<"-", "m", "a", "x">>,
     <<"-", "q", "u", "a", "l", "i", "t", "y", "=", "a", "b", "c">>,
     <<"-", "s", "c", "a", "l", "e", "=", "3", "2", "0", ":", "-", "1">>}

RECURSIVE ArgStrings(_)
ArgStrings(n) ==
    IF n = 0 THEN UrlInputs
    ELSE LET shorter == ArgStrings(n - 1)
         IN  shorter \cup {s \o <<" ">> \o f : s \in shorter, f \in FlagInputs}

-----------------------------------------------------------------------------
(* The commands convert_to_gif and v2g_command build from a parsed
   descriptor, and the exceptions their processes end in *)

\* Decimal numbers are n/d with d a power of ten.
Greater(a, b) == a.n * b.d > b.n * a.d

Minus(a, b) == [n |-> a.n * b.d - b.n * a.d, d |-> a.d * b.d]

\* Mutation of new_delay: round() rounding halves up.
RoundHalfUp(n, d) == IF 2 * (n % d) >= d THEN (n \div d) + 1 ELSE n \div d

\* Python's round(n/d) for n >= 0, d > 0: halves go to the even neighbour.
Round(n, d) ==
    LET q == n \div d
        r == n % d
    IN  IF 2 * r < d THEN q
        ELSE IF 2 * r > d THEN q + 1
        ELSE IF q % 2 = 0 THEN q ELSE q + 1

\* Mutation of new_delay: without max(1, ...).
new_delay_unclamped(fps, sp) == Round(100 * sp.d, fps * sp.n)

\* base_delay = 100 / fps; new_delay = max(1, int(round(base_delay / speed)))
new_delay(fps, sp) ==
    LET r == Round(100 * sp.d, fps * sp.n)
    IN  IF r > 1 THEN r ELSE 1

\* "-ss {start_time} -t {duration}" with duration = end_float - start_float.
TimeParams(d) ==
    IF d.time = <<>> THEN <<>>
    ELSE <<[ss |-> d.time[1], t |-> Minus(d.time[2], d.time[1])]>>

Filter(name, n, d, s) == [name |-> name, n |-> n, d |-> d, s |-> s]

FpsFilter(d) == Filter("fps", d.fps, 1, <<>>)

ScaleFilter(d) == Filter("scale", 0, 1, d.scale)

\* setpts={1/speed}*PTS
SetptsFilter(d) == Filter("setpts", d.speed.d, d.speed.n, <<>>)

\* -vf "fps={fps},scale={scale}:flags=lanczos,palettegen"
PaletteFilters(d) ==
    <<FpsFilter(d), ScaleFilter(d), Filter("palettegen", 0, 1, <<>>)>>

\* vf_parts of the encode pass.
EncodeFilters(v, d) ==
    IF v = "nitro"
    THEN <<FpsFilter(d), ScaleFilter(d), Filter("paletteuse", 0, 1, <<>>)>>
    ELSE <<ScaleFilter(d)>>
         \o (IF d.speed.n # d.speed.d
             THEN <<SetptsFilter(d), FpsFilter(d)>> ELSE <<>>)
         \o <<Filter("paletteuse", 0, 1, <<>>)>>

\* vf_parts of v2g_command.
V2GFilters(v, d) ==
    <<FpsFilter(d), ScaleFilter(d)>>
    \o (IF v = "unified" /\ d.speed.n # d.speed.d
        THEN <<SetptsFilter(d)>> ELSE <<>>)
    \o <<Filter("paletteuse", 0, 1, <<>>)>>

Command(stage, time, vf, delay) ==
    [stage |-> stage, time |-> time, vf |-> vf, delay |-> delay]

\* The text of an exception: a head, the characters of the process's
\* stderr that follow it, and whether "..." ends it.
Text(kind, head, kept, dots) ==
    [kind |-> kind, head |-> head, kept |-> kept, dots |-> dots]

NoError == Text("none", <<>>, 0, FALSE)

TextLen(e) == Len(e.head) + e.kept + (IF e.dots THEN 3 ELSE 0)

\* run_docker_cmd on a non-zero return code:
\* raise Exception(f"Docker command failed: {stderr.decode()}")
DockerFailed(n) == Text("docker_failed", <<"D", "o", "c", "k", "e", "r", " ", "c", "o", "m", "m", "a", "n", "d", " ", "f", "a", "i", "l", "e", "d", ":", " ">>, n, FALSE)

TruncateAt == 1000

KeptChars == 997

\* Mutation of Truncated: the text is passed on whole.
Untruncated(e) == e

\* if len(error_str) > 1000: error_str = error_str[:997] + "..."
Truncated(e) ==
    IF TextLen(e) > TruncateAt
    THEN [e EXCEPT !.kept = KeptChars - Len(e.head), !.dots = TRUE]
    ELSE e

\* except Exception as e: ...; raise Exception(f"<prefix>{error_str}")
Wrapped(e, kind, prefix) ==
    LET t == Truncated(e) IN [t EXCEPT !.kind = kind, !.head = prefix \o @]

FfmpegError(e) == Wrapped(e, "ffmpeg_error", <<"F", "F", "m", "p", "e", "g", " ", "e", "r", "r", "o", "r", ":", " ">>)

GiflossyError(e) == Wrapped(e, "giflossy_error", <<"G", "i", "f", "l", "o", "s", "s", "y", " ", "e", "r", "r", "o", "r", ":", " ">>)

\* Lengths of stderr tried: 977 is the longest that is passed on whole.
StderrLens == {0, 977, 978, 2000}

NoDesc == [by |-> "none"]

\* No argument string is being parsed.
ArgIdle ==
    /\ args_str = <<>>
    /\ parsed = NoDesc
    /\ tpc = "input"
    /\ cmdline = <<>>
    /\ raised = NoError

TStep(p, t, c, r) ==
    /\ parsed' = p
    /\ tpc' = t
    /\ cmdline' = c
    /\ raised' = r
    /\ UNCHANGED <<args_str, pvars, cvars, xvars>>

Raise(e) == TStep(parsed, "raised", cmdline, e)

Goto(t) == TStep(parsed, t, cmdline, raised)

Start(t, c) == TStep(parsed, t, Append(cmdline, c), raised)

\* The four commands parse their argument string.
ParseC ==
    /\ tpc = "input"
    /\ TStep(parse_cobalt_args(variant, args_str), "parsed", <<>>, NoError)

ParseCG ==
    /\ tpc = "input"
    /\ TStep(parse_gif_args(variant, args_str), "parsed", <<>>, NoError)

ParseV2G ==
    /\ tpc = "input"
    /\ TStep(parse_v2g_args(variant, args_str), "parsed", <<>>, NoError)

ParseV2MP3 ==
    /\ tpc = "input"
    /\ variant = "nitro"
    /\ TStep(parse_v2mp3_args(variant, args_str), "parsed", <<>>, NoError)

\* convert_to_gif(video_path, fps, scale, time, optimize, speed) up to its
\* first await.
TPalette ==
    /\ tpc = "parsed"
    /\ parsed.by = "parse_gif_args"
    /\ Start("palette",
             Command("palette", TimeParams(parsed), PaletteFilters(parsed), 0))

\* The delay rewrite of the nitro variant, or what follows without it.
TAfterEncode(next) ==
    IF variant = "nitro" /\ parsed.speed.n # parsed.speed.d
    THEN IF parsed.fps = 0 \/ parsed.speed.n = 0
         THEN Raise(Text("zero_division", <<>>, 0, FALSE))
         ELSE Start("delay",
                    Command("delay", <<>>, <<>>,
                            new_delay(parsed.fps, parsed.speed)))
    ELSE Goto(next)

TPaletteExit ==
    /\ tpc = "palette"
    /\ \E o \in ProcOutcomes, n \in StderrLens :
          IF o = "fail" THEN Raise(DockerFailed(n))
          ELSE IF o = "noout" THEN Raise(Text("no_palette", <<>>, 0, FALSE))
          ELSE IF /\ variant = "unified"
                  /\ parsed.speed.n # parsed.speed.d
                  /\ parsed.speed.n = 0
          THEN Raise(Text("zero_division", <<>>, 0, FALSE))
          ELSE Start("encode",
                     Command("encode", TimeParams(parsed),
                             EncodeFilters(variant, parsed), 0))

TEncodeExit ==
    /\ tpc = "encode"
    /\ \E o \in ProcOutcomes, n \in StderrLens :
          IF o = "fail" THEN Raise(FfmpegError(DockerFailed(n)))
          ELSE IF o = "noout"
          THEN Raise(Text("gif_not_found", <<>>, 0, FALSE))
          ELSE TAfterEncode("gate")

\* v2g_command from the parsed descriptor to its ffmpeg run.
TFfmpeg ==
    /\ tpc = "parsed"
    /\ parsed.by = "parse_v2g_args"
    /\ IF /\ variant = "unified"
          /\ parsed.speed.n # parsed.speed.d
          /\ parsed.speed.n = 0
       THEN Raise(Text("zero_division", <<>>, 0, FALSE))
       ELSE Start("ffmpeg",
                  Command("ffmpeg", TimeParams(parsed),
                          V2GFilters(variant, parsed), 0))

TFfmpegExit ==
    /\ tpc = "ffmpeg"
    /\ \E o \in ProcOutcomes, n \in StderrLens :
          IF o = "fail" THEN Raise(DockerFailed(n))
          ELSE IF o = "noout"
          THEN Raise(Text("gif_not_found", <<>>, 0, FALSE))
          ELSE TAfterEncode("returned")

\* gifsicle --batch --delay ended; run_docker_cmd is not wrapped here.
TDelayExit ==
    /\ tpc = "delay"
    /\ \E o \in {"ok", "fail"}, n \in StderrLens :
          IF o = "fail" THEN Raise(DockerFailed(n))
          ELSE Goto(IF parsed.by = "parse_gif_args" THEN "gate"
                    ELSE "returned")

\* "Check initial size" and "Optimize if requested": whatever the size, a
\* lossy pass is started exactly when optimize is set.
TGate ==
    /\ tpc = "gate"
    /\ IF parsed.optimize
       THEN Start("lossy1", Command("lossy1", <<>>, <<>>, 0))
       ELSE Goto("returned")

TLossy1Exit ==
    /\ tpc = "lossy1"
    /\ \E o \in ProcOutcomes, n \in StderrLens, over \in BOOLEAN :
          IF o = "fail" THEN Raise(GiflossyError(DockerFailed(n)))
          ELSE IF o = "noout" THEN Raise(Text("opt_failed", <<>>, 0, FALSE))
          ELSE IF over THEN Start("lossy2", Command("lossy2", <<>>, <<>>, 0))
          ELSE Goto("returned")

TLossy2Exit ==
    /\ tpc = "lossy2"
    /\ \E o \in ProcOutcomes, n \in StderrLens :
          IF o = "fail" THEN Raise(GiflossyError(DockerFailed(n)))
          ELSE Goto("returned")

ArgNext ==
    \/ ParseC
    \/ ParseCG
    \/ ParseV2G
    \/ ParseV2MP3
    \/ TPalette
    \/ TPaletteExit
    \/ TEncodeExit
    \/ TFfmpeg
    \/ TFfmpegExit
    \/ TDelayExit
    \/ TGate
    \/ TLossy1Exit
    \/ TLossy2Exit

-----------------------------------------------------------------------------
\* Two v2g requests by url that overlap: both download to
\* <download dir>/input_video.mp4.  A request is followed from await to
\* await; the file is written chunk by chunk, unbuffered.

\* Chunks a download has at most.
MaxChunks == 2

NoV2G == [pc |-> "idle", attempt |-> 0, written |-> 0, fd |-> 0,
          seen |-> <<>>, read |-> FALSE]

\* input_video.mp4: the file the path names (gen 0: no file), the files
\* made so far, and per chunk of the file the request that wrote it (0: a
\* gap).
NoFile == [gen |-> 0, made |-> 0, data |-> <<>>]

V2GIdle ==
    /\ v2g = [r \in Reqs |-> NoV2G]
    /\ input_video = NoFile
    /\ overlap = FALSE

Underway(q) == q.pc \notin {"idle", "done", "failed"}

\* open(file_path, 'wb'): the file is created, or cut to length 0.
OpenWb(f) ==
    IF f.gen = 0 THEN [gen |-> f.made + 1, made |-> f.made + 1, data |-> <<>>]
    ELSE [f EXCEPT !.data = <<>>]

\* f.write(chunk) at offset k - 1 by request r through the handle fd: the
\* write is lost to the path when the file it was opened on is no longer
\* the one the path names.
WriteAt(f, fd, k, r) ==
    IF fd # f.gen THEN f
    ELSE [f EXCEPT !.data =
            [i \in 1..(IF k > Len(f.data) THEN k ELSE Len(f.data)) |->
                IF i = k THEN r ELSE IF i <= Len(f.data) THEN f.data[i] ELSE 0]]

\* "downloading video..." is sent and download_file waits for the GET.
UStart(r) ==
    /\ v2g[r].pc = "idle"
    /\ v2g' = [v2g EXCEPT ![r].pc = "get"]
    /\ overlap' = (overlap \/ \E o \in Reqs \ {r} : Underway(v2g[o]))
    /\ UNCHANGED <<input_video, pvars, cvars, avars, kvars>>

\* The GET is answered: 200 or 206 opens the file, 403 on the first attempt
\* is tried again without Range, anything else ends the request with a
\* message.
UGetAnswered(r) ==
    /\ v2g[r].pc = "get"
    /\ \E status \in {200, 403, 500} :
          IF status = 200
          THEN /\ input_video' = OpenWb(input_video)
               /\ v2g' = [v2g EXCEPT ![r].pc = "read",
                                     ![r].fd = OpenWb(input_video).gen]
          ELSE IF status = 403 /\ v2g[r].attempt = 0
          THEN /\ v2g' = [v2g EXCEPT ![r].attempt = 1]
               /\ UNCHANGED input_video
          ELSE /\ v2g' = [v2g EXCEPT ![r].pc = "failed"]
               /\ UNCHANGED input_video
    /\ UNCHANGED <<overlap, pvars, cvars, avars, kvars>>

\* response.content.read(8192) returns: a chunk is written, or the body has
\* ended; then the size checks, and ffmpeg is started on the path.
UChunkRead(r) ==
    /\ v2g[r].pc = "read"
    /\ \/ /\ v2g[r].written < MaxChunks
          /\ input_video' = WriteAt(input_video, v2g[r].fd,
                                    v2g[r].written + 1, r)
          /\ v2g' = [v2g EXCEPT ![r].written = @ + 1]
       \/ /\ v2g' = [v2g EXCEPT ![r].pc =
                        IF \/ v2g[r].written = 0
                           \/ input_video.gen = 0
                           \/ input_video.data = <<>>
                        THEN "failed" ELSE "ffmpeg"]
          /\ UNCHANGED input_video
    /\ UNCHANGED <<overlap, pvars, cvars, avars, kvars>>

\* ffmpeg -i /input/input_video.mp4 has run: it read what the path held,
\* and exits non-zero without an input.
UFfmpegExit(r) ==
    /\ v2g[r].pc = "ffmpeg"
    /\ IF input_video.gen = 0
       THEN v2g' = [v2g EXCEPT ![r].pc = "failed"]
       ELSE \E ok \in BOOLEAN :
               v2g' = [v2g EXCEPT ![r].pc = IF ok THEN "deliver" ELSE "failed",
                                  ![r].seen = input_video.data,
                                  ![r].read = TRUE]
    /\ UNCHANGED <<input_video, overlap, pvars, cvars, avars, kvars>>

\* The GIF went out: as a link, after which the handler returns, or
\* inline, after which os.remove(video_path) runs unless persistent.
UDelivered(r) ==
    /\ v2g[r].pc = "deliver"
    /\ v2g' = [v2g EXCEPT ![r].pc = "done"]
    /\ \E route \in {"upload", "inline"} :
          input_video' = IF route = "inline" /\ ~persistent
                         THEN [input_video EXCEPT !.gen = 0, !.data = <<>>]
                         ELSE input_video
    /\ UNCHANGED <<overlap, pvars, cvars, avars, kvars>>

V2GNext ==
    \E r \in Reqs :
        \/ UStart(r)
        \/ UGetAnswered(r)
        \/ UChunkRead(r)
        \/ UFfmpegExit(r)
        \/ UDelivered(r)

-----------------------------------------------------------------------------
\* The configuration store and handle_config_command, followed from the
\* text of the command.

\* float(s) of the texts tried: a sign, then nan, inf, or digits with a
\* fraction; "error" stands for ValueError.  Surrounding blanks are ignored.
Float(s) ==
    LET t == Strip(s)
        neg == t # <<>> /\ t[1] = "-"
        body == IF t # <<>> /\ t[1] \in {"-", "+"} THEN Tail(t) ELSE t
        m == Decimal(body, 1, TRUE)
    IN  IF body \in {<<"n", "a", "n">>, <<"N", "a", "N">>} THEN [kind |-> "nan", n |-> 0, d |-> 1]
        ELSE IF body \in {<<"i", "n", "f">>, <<"i", "n", "f", "i", "n", "i", "t", "y">>}
        THEN [kind |-> "inf", n |-> IF neg THEN -1 ELSE 1, d |-> 1]
        ELSE IF m.ok /\ m.len = Len(body)
        THEN [kind |-> "num", n |-> IF neg THEN -m.n ELSE m.n, d |-> m.d]
        ELSE [kind |-> "error", n |-> 0, d |-> 1]

\* x <= 0 as Python compares floats: never true of nan.
NotAboveZero(x) == x.kind \in {"num", "inf"} /\ x.n <= 0

\* valid_times
valid_times ==
    [k \in {<<"1">>, <<"1", "2">>, <<"2", "4">>, <<"7", "2">>} |->
        IF k = <<"1">> THEN "1h" ELSE IF k = <<"1", "2">> THEN "12h"
        ELSE IF k = <<"2", "4">> THEN "24h" ELSE "72h"]

DefaultUrl == <<"h", "t", "t", "p", ":", "/", "/", "l", "o", "c", "a", "l", "h", "o", "s", "t", ":", "9", "0", "0", "0">>

DefaultPath == <<"/", "t", "m", "p", "/", "c">>

\* "Initialize configuration": the store when no key was stored before.
DefaultConfig(v) ==
    [url |-> DefaultUrl, path |-> DefaultPath, debug |-> FALSE,
     persistent |-> FALSE, expiry |-> "24h",
     threshold |-> [kind |-> "num",
                    n |-> IF v = "nitro" THEN DefaultLimitNitro
                          ELSE DefaultLimitUnified,
                    d |-> 1],
     latch |-> FALSE]

\* handle_config_command: the store after the command and the message
\* sent.  more: the text has a second part (len(args_parts) > 1), arg; o:
\* what os.makedirs or the status probe met.
handle_config_command(v, c, action, more, arg, o) ==
    IF action = "url" /\ more
    THEN IF \/ StartsAt(Strip(arg), 1, <<"h", "t", "t", "p", ":", "/", "/">>)
            \/ StartsAt(Strip(arg), 1, <<"h", "t", "t", "p", "s", ":", "/", "/">>)
         THEN [config |-> [c EXCEPT !.url = Strip(arg)], sent |-> "set"]
         ELSE [config |-> c, sent |-> "invalid"]
    ELSE IF action = "path" /\ more
    THEN IF o = "ok"
         THEN [config |-> [c EXCEPT !.path = Strip(arg)], sent |-> "set"]
         ELSE [config |-> c, sent |-> "error"]
    ELSE IF action = "debug"
    THEN [config |-> [c EXCEPT !.debug = ~@], sent |-> "set"]
    ELSE IF action = "persistent"
    THEN [config |-> [c EXCEPT !.persistent = ~@], sent |-> "set"]
    ELSE IF action = "lb" /\ more
    THEN IF Strip(arg) \in DOMAIN valid_times
         THEN [config |-> [c EXCEPT !.expiry = valid_times[Strip(arg)]],
               sent |-> "set"]
         ELSE [config |-> c, sent |-> "invalid"]
    ELSE IF (action = "limit" /\ more) \/ (v = "nitro" /\ action \in {"limit", "lbt"})
    THEN IF ~more THEN [config |-> c, sent |-> "current"]
         ELSE IF Float(arg).kind = "error"
         THEN [config |-> c, sent |-> "invalid"]
         ELSE IF NotAboveZero(Float(arg))
         THEN [config |-> c, sent |-> "not_positive"]
         ELSE [config |-> [c EXCEPT !.threshold = Float(arg)], sent |-> "set"]
    ELSE IF v = "nitro" /\ action = "resetsetup"
    THEN [config |-> [c EXCEPT !.latch = FALSE], sent |-> "set"]
    ELSE IF action = "status"
    THEN [config |-> IF v = "nitro" /\ o = "http200"
                     THEN [c EXCEPT !.latch = TRUE] ELSE c,
          sent |-> "status"]
    ELSE [config |-> c, sent |-> "invalid_command"]

\* The texts tried after "url", "path", "lb" and "limit".
UrlTexts == {<<"h", "t", "t", "p", "s", ":", "/", "/", "h">>, <<" ", "h", "t", "t", "p", ":", "/", "/", "h">>, <<"f", "t", "p", ":", "/", "/", "h">>}

PathTexts == {<<"/", "d">>}

ExpiryTexts == {<<"1">>, <<"1", "2">>, <<"2", "4">>, <<" ", "7", "2">>, <<"4", "8">>, <<"1", "h">>}

LimitTexts == {<<"2", "0">>, <<" ", "2", "0">>, <<"0">>, <<"-", "5">>, <<".", "5">>, <<"a", "b", "c">>, <<"n", "a", "n">>, <<"N", "a", "N">>, <<"i", "n", "f">>, <<"-", "i", "n", "f">>}

NoReply ==
    [action |-> "none", more |-> FALSE, arg |-> <<>>, sent |-> "none",
     before |-> DefaultConfig("unified")]

\* No configuration command was given.
ConfIdle ==
    /\ config = DefaultConfig("unified")
    /\ reply = NoReply

\* One configuration command runs; reply keeps the command, the message
\* sent and the store it found.
ConfStep(action, more, arg, o) ==
    LET r == handle_config_command(variant, config, action, more, arg, o)
    IN  /\ config' = r.config
        /\ reply' = [action |-> action, more |-> more, arg |-> arg,
                     sent |-> r.sent, before |-> config]

CmdUrl ==
    /\ \E t \in UrlTexts : ConfStep("url", TRUE, t, "ok")
    /\ UNCHANGED <<pvars, cvars, avars, dvars>>

CmdPath ==
    /\ \E t \in PathTexts, o \in {"ok", "oserror"} : ConfStep("path", TRUE, t, o)
    /\ UNCHANGED <<pvars, cvars, avars, dvars>>

CmdDebug ==
    /\ ConfStep("debug", FALSE, <<>>, "ok")
    /\ UNCHANGED <<pvars, cvars, avars, dvars>>

CmdPersistent ==
    /\ ConfStep("persistent", FALSE, <<>>, "ok")
    /\ UNCHANGED <<pvars, cvars, avars, dvars>>

CmdLb ==
    /\ \E t \in ExpiryTexts : ConfStep("lb", TRUE, t, "ok")
    /\ UNCHANGED <<pvars, cvars, avars, dvars>>

CmdLimit ==
    /\ \/ \E t \in LimitTexts : ConfStep("limit", TRUE, t, "ok")
       \/ \E a \in {"limit", "lbt"} : ConfStep(a, FALSE, <<>>, "ok")
    /\ UNCHANGED <<pvars, cvars, avars, dvars>>

CmdResetSetup ==
    /\ ConfStep("resetsetup", FALSE, <<>>, "ok")
    /\ UNCHANGED <<pvars, cvars, avars, dvars>>

CmdStatus ==
    /\ \E o \in StatusOutcomes : ConfStep("status", FALSE, <<>>, o)
    /\ UNCHANGED <<pvars, cvars, avars, dvars>>

ConfNext ==
    \/ CmdUrl
    \/ CmdPath
    \/ CmdDebug
    \/ CmdPersistent
    \/ CmdLb
    \/ CmdLimit
    \/ CmdResetSetup
    \/ CmdStatus

-----------------------------------------------------------------------------
Free == pc = "idle"

Ended == pc \in {"done", "crashed"}

\* The request pipeline before the first command.
PipelineInit ==
    /\ variant \in Variants
    /\ limit = IF variant = "nitro" THEN DefaultLimitNitro
               ELSE DefaultLimitUnified
    /\ persistent = FALSE
    /\ latch = FALSE
    /\ pc = "idle"
    /\ cmd = "none"
    /\ optimize = FALSE
    /\ speed = 1
    /\ fs = EmptyFs
    /\ msg = "none"
    /\ items = <<>>
    /\ audio = FALSE
    /\ idx = 0
    /\ dlCtx = "none"
    /\ dlPath = DlPath
    /\ dlRange = FALSE
    /\ dlAttempt = 0
    /\ paths = <<>>
    /\ isList = FALSE
    /\ thr = None
    /\ initial = None
    /\ original = None
    /\ optimized = None
    /\ ret = NoRet
    /\ qi = 0
    /\ hist = EmptyHist

\* No convert_to_gif call is under way.
ConcIdle ==
    /\ conc = [r \in Reqs |-> NoCall]
    /\ work = EmptyWork
    /\ lastIn = 0
    /\ foreign = {}

Init == PipelineInit /\ ConcIdle /\ ArgIdle /\ ConfIdle /\ V2GIdle

ConcInit == PipelineInit /\ ConcIdle /\ ArgIdle /\ ConfIdle /\ V2GIdle

\* A command is given one of the argument strings tried.
ArgInit ==
    /\ PipelineInit
    /\ ConcIdle
    /\ ConfIdle
    /\ V2GIdle
    /\ args_str \in ArgStrings(MaxFlags)
    /\ parsed = NoDesc
    /\ tpc = "input"
    /\ cmdline = <<>>
    /\ raised = NoError

\* The store as the script leaves it when it is loaded.
ConfInit ==
    /\ PipelineInit
    /\ ConcIdle
    /\ ArgIdle
    /\ V2GIdle
    /\ config = DefaultConfig(variant)
    /\ reply = NoReply

StartC ==
    /\ Free
    /\ \E src \in {"url", "empty"}, valid \in BOOLEAN :
          Apply(BeginC(S, src, valid))

StartCG ==
    /\ Free
    /\ \E src \in {"url", "empty"}, valid, opt \in BOOLEAN, sp \in Speeds :
          Apply(BeginCG(S, src, valid, opt, sp))

StartV2G ==
    /\ Free
    /\ \E src \in {"url", "attachment", "empty", "noargs", "prev"},
          u \in V2GUrls, opt \in BOOLEAN, sp \in Speeds :
          /\ src \in {"noargs", "prev"} => (~opt /\ sp = 1)
          /\ Apply(BeginV2G(S, src, u, opt, sp))

StartV2MP3 ==
    /\ Free
    /\ variant = "nitro"
    /\ \E src \in {"url", "attachment", "empty"}, valid \in BOOLEAN :
          Apply(BeginV2MP3(S, src, valid))

PostAnswered ==
    /\ pc = "post"
    /\ \E r \in PostAnswers : Apply(OnPost(S, r))

GetAnswered ==
    /\ pc = "get"
    /\ \E o \in GetOutcomes, size \in GetSizes(S) : Apply(OnGet(S, o, size))

PaletteExit ==
    /\ pc = "palette"
    /\ \E o \in ProcOutcomes : Apply(OnPalette(Exited(S, o), o))

EncodeExit ==
    /\ pc = "encode"
    /\ \E o \in ProcOutcomes, size \in Sizes : Apply(OnEncode(Exited(S, o), o, size))

FfmpegExit ==
    /\ pc = "ffmpeg"
    /\ \E o \in ProcOutcomes, size \in Sizes :
          Apply(IF cmd = "v2g" THEN VOnFfmpeg(Exited(S, o), o, size)
                ELSE MOnFfmpeg(Exited(S, o), o, size))

DelayExit ==
    /\ pc = "delay"
    /\ \E o \in ProcOutcomes, size \in Sizes : Apply(OnDelay(Exited(S, o), o, size))

Lossy1Exit ==
    /\ pc = "lossy1"
    /\ \E o \in ProcOutcomes, size \in Sizes : Apply(OnLossy1(Exited(S, o), o, size))

Lossy2Exit ==
    /\ pc = "lossy2"
    /\ \E o \in ProcOutcomes, size \in Sizes : Apply(OnLossy2(Exited(S, o), o, size))

SendReturned ==
    /\ pc = "send"
    /\ \E o \in SendOutcomes : Apply(OnSend(S, o))

UploadAnswered ==
    /\ pc = "upload"
    /\ \E a \in UploadAnswers : Apply(OnUpload(S, a))

\* The handler returned (or its exception went to the bot framework): its
\* locals are gone and the next command can be taken.
Return ==
    /\ Ended
    /\ Apply(Idle(S))

\* The configuration commands run whenever the event loop is free: between
\* requests and at every await of a running one.
SetLimit ==
    /\ ~Ended
    /\ \E v \in LimitInputs : Apply(ConfigLimit(S, v))

TogglePersistent ==
    /\ ~Ended
    /\ Apply(ConfigPersistent(S))

ResetSetup ==
    /\ ~Ended
    /\ variant = "nitro"
    /\ Apply(ConfigResetSetup(S))

StatusProbe ==
    /\ ~Ended
    /\ \E o \in StatusOutcomes : Apply(ConfigStatus(S, o))

Next ==
    \/ StartC
    \/ StartCG
    \/ StartV2G
    \/ StartV2MP3
    \/ PostAnswered
    \/ GetAnswered
    \/ PaletteExit
    \/ EncodeExit
    \/ FfmpegExit
    \/ DelayExit
    \/ Lossy1Exit
    \/ Lossy2Exit
    \/ SendReturned
    \/ UploadAnswered
    \/ Return
    \/ SetLimit
    \/ TogglePersistent
    \/ ResetSetup
    \/ StatusProbe

Spec == Init /\ [][Next]_vars

\* Two overlapping calls of convert_to_gif.
\* The steps that follow an awaited external call: the answer of an HTTP
\* request, the exit of a process, the return of a send or an upload.
Awaited ==
    \/ PostAnswered
    \/ GetAnswered
    \/ PaletteExit
    \/ EncodeExit
    \/ FfmpegExit
    \/ DelayExit
    \/ Lossy1Exit
    \/ Lossy2Exit
    \/ SendReturned
    \/ UploadAnswered

\* Every external call returns: aiohttp and the process pipes hand their
\* outcome, success or failure, to the waiting coroutine, and the event loop
\* resumes it.
\* The requests one after the other, each followed to its end, with the
\* configuration as loaded.
LiveNext ==
    \/ StartC
    \/ StartCG
    \/ StartV2G
    \/ StartV2MP3
    \/ Awaited
    \/ Return

FairSpec == Init /\ [][LiveNext]_vars /\ WF_vars(Awaited)

ConcSpec == ConcInit /\ [][ConcNext]_vars

ArgSpec == ArgInit /\ [][ArgNext]_vars

\* Configuration commands given one after the other.
ConfSpec == ConfInit /\ [][ConfNext]_vars

\* Two v2g requests by url, started in any order and at any time.
V2GInit == PipelineInit /\ ConcIdle /\ ArgIdle /\ ConfIdle /\ V2GIdle

V2GSpec == V2GInit /\ [][V2GNext]_vars

-----------------------------------------------------------------------------
(* Properties *)

Range(seq) == {seq[i] : i \in 1..Len(seq)}

Count(seq, x) == Cardinality({i \in 1..Len(seq) : seq[i] = x})

Last(seq) == seq[Len(seq)]

\* The lossy passes of the optimizer among the processes started so far.
LossyRuns == {i \in 1..Len(hist.procs) : hist.procs[i].proc \in {"lossy1", "lossy2"}}

\* convert_to_gif has passed its size check in the running request.
Gated == cmd = "cg" /\ initial # None

\* C1: in convert_to_gif, when the encoded GIF is larger than the threshold
\* and optimize was not requested, the result is upload-required (with the
\* encoded size as its size) and no gifsicle --lossy run was started.
C1_OversizeSkipsOptimizer ==
    (Gated /\ initial > thr /\ ~optimize) =>
        /\ ret.set
        /\ ret.upload
        /\ ret.final = initial
        /\ LossyRuns = {}

C1_Witness ==
    /\ Gated
    /\ initial = 52
    /\ thr = 50
    /\ ~optimize
    /\ ret.set
    /\ ret.upload
    /\ LossyRuns = {}

\* C2: whenever a second lossy pass was started, a first pass preceded it with
\* the strictly lower level (30, then 60), and the second pass reads the same
\* file as the first, the encoded GIF at its pre-optimization size, not
\* optimized.gif.
C2_SecondPassOnOriginal ==
    \A i \in 1..Len(hist.procs) :
        hist.procs[i].proc = "lossy2" =>
            /\ i > 1
            /\ hist.procs[i - 1].proc = "lossy1"
            /\ hist.procs[i - 1].level = 30
            /\ hist.procs[i].level = 60
            /\ hist.procs[i - 1].level < hist.procs[i].level
            /\ hist.procs[i].inp = GifPath
            /\ hist.procs[i].inp = hist.procs[i - 1].inp
            /\ hist.procs[i].insz = original
            /\ hist.procs[i].insz = hist.procs[i - 1].insz

C2_Witness ==
    /\ pc = "lossy2"
    /\ optimized = 52
    /\ original = 52
    /\ Last(hist.procs).proc = "lossy2"
    /\ Last(hist.procs).insz = 52

\* C3: with optimize requested, once convert_to_gif has returned: if the
\* second pass ran and its output is over the threshold the result is
\* upload-required; otherwise (the first or the second pass fits) the file at
\* the returned path is the optimized output, and optimized.gif is gone.
\* The file is looked at while the handler still delivers it.
C3_OptimizedReplacesArtifact ==
    (cmd = "cg" /\ optimize /\ ret.set) =>
        /\ optimized # None
        /\ (optimized > thr) =>
              /\ ret.upload
              /\ Count([i \in 1..Len(hist.procs) |-> hist.procs[i].proc], "lossy2") = 1
        /\ (optimized <= thr /\ pc \in {"send", "upload"}) =>
              /\ fs[ret.path] = optimized
              /\ ~Exists(fs, OptimizedPath)
              /\ ret.final = optimized

C3_Witness ==
    /\ cmd = "cg"
    /\ optimize
    /\ ret.set
    /\ Last(hist.procs).proc = "lossy2"
    /\ original = 52
    /\ optimized = 8
    /\ pc = "send"
    /\ fs[ret.path] = 8

\* C4: a delivery decision takes the upload, with no inline send of that
\* artifact attempted, exactly when the artifact's size is strictly greater
\* than the threshold (the configured value as the request read it); at or
\* below the threshold the inline send comes first.  The flag convert_to_gif
\* returns is true exactly when the size it reports is greater than the
\* threshold.
C4_UploadIffOverThreshold ==
    /\ hist.route # <<>> =>
          LET d == hist.route[1]
          IN  /\ (d.route = "upload") <=> (d.size > d.thr)
              /\ (d.route = "upload") =>
                    /\ d.path \notin Range(hist.sends)
                    /\ pc # "send"
              /\ (d.route = "inline") =>
                    /\ d.path \notin Range(hist.uploads)
                    /\ pc # "upload"
              /\ pc \in {"send", "upload"} => d.path = CurPath(S)
    /\ ret.set => (ret.upload <=> ret.final > thr)

C4_Witness ==
    /\ hist.route # <<>>
    /\ hist.route[1].size = hist.route[1].thr
    /\ hist.route[1].route = "inline"
    /\ pc = "send"
    /\ hist.sends # <<>>
    /\ Last(hist.sends) = hist.route[1].path

\* C5: in every command, when the inline send just failed with 413 Payload
\* Too Large, the upload of that artifact has been started.
C5_TooLargeFallsBack ==
    hist.lastSend = "e413" =>
        /\ pc = "upload"
        /\ Last(hist.uploads) = Last(hist.sends)

C5_Witness ==
    /\ cmd = "v2g"
    /\ hist.lastSend = "e413"
    /\ hist.uploads = <<>>
    /\ hist.reports # <<>>
    /\ Last(hist.reports) = "limit_exceeded"
    /\ pc = "done"

\* C6: within one request no artifact is uploaded more than once, and when
\* an upload has just failed the user was told so and the upload of that
\* artifact is not started again.
C6_UploadAtMostOnce ==
    /\ \A p \in Paths : Count(hist.uploads, p) <= 1
    /\ (hist.lastUpload # <<>> /\ ~hist.lastUpload[1].ok) =>
          /\ hist.reports # <<>>
          /\ Last(hist.reports) = "upload_failed"
          /\ pc = "upload" => Last(hist.uploads) # hist.lastUpload[1].path

C6_Witness ==
    /\ hist.lastUpload # <<>>
    /\ ~hist.lastUpload[1].ok
    /\ hist.reports # <<>>
    /\ Last(hist.reports) = "upload_failed"
    /\ Len(hist.uploads) = 2
    /\ pc = "upload"

\* C7: upload_to_litterbox returns a url, the response body, exactly when the
\* answer has status 200 and its body begins with the eight characters
\* https:// ; after any other answer no url is returned and no link is posted.
C7_AcceptsOnlyHttpsBody ==
    hist.lastUpload # <<>> =>
        LET u == hist.lastUpload[1]
            https == /\ Len(u.body) >= 8
                     /\ \A i \in 1..8 : u.body[i] = HttpsPrefix[i]
        IN  /\ u.ok <=> (u.status = 200 /\ https)
            /\ u.ok => (u.url = u.body /\ u.path \in Range(hist.links))
            /\ ~u.ok => (u.url = <<>> /\ u.path \notin Range(hist.links))

C7_Witness ==
    /\ hist.lastUpload # <<>>
    /\ hist.lastUpload[1].status = 200
    /\ hist.lastUpload[1].body = <<"h", "t", "t", "p", ":", "/", "/", "x">>
    /\ ~hist.lastUpload[1].ok

\* C8: a picker fetch fails only if no item was obtained: a failed item
\* download leaves the fetch running or successful.
C8_ItemFailureDoesNotAbort ==
    (items # <<>> /\ "ok" \in Range(hist.itemLog)) => hist.fetch \in {"none", "ok"}

C8_Witness ==
    /\ hist.itemLog = <<"ok", "fail">>
    /\ paths = <<ItemPath(1)>>
    /\ hist.fetch \notin {"none", "ok"}
    /\ pc = "done"

\* C9: the slideshow audio is requested only after every item was handled;
\* when it is downloaded it is the last element of the result; when its
\* download fails and at least one item was obtained the fetch succeeds with
\* exactly the items obtained.
C9_AudioLastAndOptional ==
    LET got == [i \in 1..Len(paths) |-> paths[i][1]]
    IN  /\ (pc = "get" /\ dlCtx = "audio") => Len(hist.itemLog) = Len(items)
        /\ hist.audioLog # "none" => Len(hist.itemLog) = Len(items)
        /\ hist.audioLog = "ok" =>
              /\ Last(paths) = AudioPath
              /\ Count(paths, AudioPath) = 1
              /\ hist.fetch = "ok"
        /\ (hist.audioLog = "fail" /\ "ok" \in Range(hist.itemLog)) =>
              /\ hist.fetch = "ok"
              /\ Len(paths) = Count(hist.itemLog, "ok")
              /\ Range(got) = {"item"}

C9_Witness ==
    /\ hist.audioLog = "fail"
    /\ hist.itemLog = <<"ok", "ok">>
    /\ hist.fetch = "ok"
    /\ paths = <<ItemPath(1), ItemPath(2)>>

\* C11: once the extraction service has sent any HTTP response, to a fetch
\* or to the status probe, the latch is set (as long as no resetsetup ran).
C11_AnyResponseSetsLatch ==
    hist.answered => latch

C11_Witness ==
    /\ variant = "nitro"
    /\ hist.answered
    /\ ~latch
    /\ ~hist.contact
    /\ pc = "idle"

\* C12: the latch is one-way: a step that finds it set and leaves it unset
\* is the resetsetup command; no step of a fetch, a transcode, a delivery
\* or the status probe clears it.
C12_LatchOneWay ==
    [][(latch /\ ~latch') => ResetSetup]_vars

C12_Witness ==
    /\ variant = "nitro"
    /\ latch
    /\ cmd = "cg"
    /\ hist.fetch = "ok"
    /\ hist.reports = <<"giflossy_error">>
    /\ pc = "done"

\* C13: one download_file call sends at most two GETs; the first carries
\* Range; a second one is sent only after the first was answered 403 and
\* carries no Range; once no GET is outstanding the call has returned
\* exactly if the last answer was a 200/206 with a body, and has failed
\* after every other answer (a second 403, another status, zero bytes).
C13_AtMostTwoGets ==
    LET g == hist.gets
        a == hist.answers
    IN  /\ Len(g) <= 2
        /\ g # <<>> => g[1]
        /\ Len(g) = 2 => (~g[2] /\ a # <<>> /\ a[1] = "s403")
        /\ (pc = "get") <=> (hist.dl = "running")
        /\ hist.dl = "running" => Len(a) = Len(g) - 1
        /\ hist.dl \in {"ok", "failed"} =>
              /\ Len(a) = Len(g)
              /\ (hist.dl = "ok") <=> (Last(a) = "ok")
        /\ \A i \in 1..Len(a) : (i < Len(a)) => a[i] = "s403"

C13_Witness ==
    /\ hist.gets = <<TRUE, FALSE>>
    /\ hist.answers = <<"s403", "s403">>
    /\ hist.dl = "failed"
    /\ pc = "done"

\* How often process kind k was started in the running request.
Started(h, k) == Cardinality({i \in 1..Len(h.procs) : h.procs[i].proc = k})

\* No element of seq occurs twice.
NoRepeat(seq) == \A i, j \in 1..Len(seq) : seq[i] = seq[j] => i = j

\* What one request may have done at most: one POST, each process kind
\* once (the optimizer: one first and one second pass), two GETs per
\* download_file call, each file uploaded once and sent inline once.
AttemptsBounded(h) ==
    /\ h.posts <= 1
    /\ \A k \in {"palette", "encode", "ffmpeg", "delay", "lossy1", "lossy2"} :
          Started(h, k) <= 1
    /\ Len(h.gets) <= 2
    /\ NoRepeat(h.uploads)
    /\ NoRepeat(h.sends)

\* The step starts the second lossy pass.
SecondPassStarts == pc # "lossy2" /\ pc' = "lossy2"

\* The step receives a failure: of a download_file call, of the POST, of a
\* process, of the inline send or of the upload.
FailedStep ==
    \/ pc = "get" /\ hist'.dl = "failed"
    \/ pc = "post" /\ hist'.fetch \notin {"none", "ok"}
    \/ /\ pc \in {"palette", "encode", "ffmpeg", "delay", "lossy1", "lossy2"}
       /\ Len(hist'.reports) > Len(hist.reports)
    \/ pc = "send" /\ hist'.lastSend \in {"e413", "fail"}
    \/ pc = "upload" /\ hist'.lastUpload # <<>> /\ ~hist'.lastUpload[1].ok

\* The failures the handlers go on after: the slideshow audio, an inline
\* send refused with 413 in cobalt_command and cobalt_gif_command, and a
\* failed upload inside the loop of cobalt_command.
ToleratedStep ==
    \/ pc = "get" /\ dlCtx = "audio"
    \/ pc = "send" /\ hist'.lastSend = "e413" /\ cmd \in {"c", "cg"}
    \/ pc = "upload" /\ cmd = "c"

C15_KnownCodesSpecific ==
    /\ hist.apiError = "invalid" => hist.fetch = "api_invalid"
    /\ hist.apiError = "unsupported" => hist.fetch = "api_unsupported"
    /\ hist.apiError = "private" => hist.fetch = "api_private"
    /\ hist.apiError = "other" =>
          hist.fetch \notin {"none", "ok", "api_invalid", "api_unsupported",
                             "api_private"}

C15_Witness ==
    /\ hist.apiError = "invalid"
    /\ hist.apiHttp = 400
    /\ hist.fetch = "http400"
    /\ hist.reports = <<"http400">>
    /\ pc = "done"

\* C16 as stated: the download that follows a tunnel or redirect answer
\* sends the configured address of the extraction service as Referer.
C16_RefererIsServiceUrl ==
    (hist.dl # "none" /\ dlCtx = "tunnel") => hist.referer = ServiceUrl

\* C16, amended: that download sends the request's source url, the one that
\* was POSTed to the extraction service, as Referer.
C16_RefererIsSourceUrl ==
    (hist.dl # "none" /\ dlCtx = "tunnel") => hist.referer = SourceUrl

C16_Witness ==
    /\ hist.dl = "ok"
    /\ dlCtx = "tunnel"
    /\ hist.referer = SourceUrl
    /\ hist.referer # ServiceUrl
    /\ hist.fetch = "ok"
    /\ hist.posts = 1

\* The step takes a command whose arguments hold no source, with no
\* attachment and nothing to take from the previous message.
EmptyStart == pc = "idle" /\ hist'.src \in {"empty", "noargs"}

\* The step started no fetch, process, send or upload and changed no file
\* and no configuration value.
NothingDone ==
    /\ hist'.posts = 0 /\ hist'.gets = <<>> /\ hist'.procs = <<>>
    /\ hist'.uploads = <<>> /\ hist'.sends = <<>>
    /\ fs' = fs /\ limit' = limit /\ persistent' = persistent /\ latch' = latch

\* C17: a command without a source (and without attachment) is answered
\* with one user message and ends at once: no fetch, transcode or upload
\* is started and no file or configuration value changes.
C17_EmptySourceRejected ==
    [][EmptyStart =>
          (pc' = "done" /\ Len(hist'.reports) = 1 /\ NothingDone)]_vars

C17_Witness ==
    /\ cmd = "v2g"
    /\ hist.src = "noargs"
    /\ hist.reports = <<>>
    /\ hist.gets = <<>>
    /\ msg = "none"
    /\ pc = "done"

\* C18: a v2g request whose url is on twitter.com or x.com ends at once with
\* the unsupported-domain message: no download and no process was started.
C18_TwitterRejectedFirst ==
    hist.onTwitter =>
        /\ pc = "done"
        /\ hist.reports = <<"unsupported_domain">>
        /\ hist.gets = <<>>
        /\ hist.procs = <<>>
        /\ hist.dl = "none"
        /\ fs = EmptyFs

C18_Witness ==
    /\ cmd = "v2g"
    /\ hist.onTwitter
    /\ hist.src = "given"
    /\ hist.reports = <<"unsupported_domain">>
    /\ msg = "none"
    /\ pc = "done"

\* The step completes a delivery: the file went out inline or its link was
\* posted.
DeliveredStep ==
    \/ Len(hist'.links) > Len(hist.links)
    \/ Len(hist'.inline) > Len(hist.inline)

\* The artifact that step delivered and the download it was made from (in
\* cobalt_command and in v2mp3 from a url the download is the artifact).
Artifact == IF cmd \in {"cg", "v2g"} THEN GifPath ELSE paths[qi]

Downloaded ==
    CASE cmd = "cg" -> paths[1]
      [] cmd = "v2g" -> DirectPath
      [] cmd = "v2mp3" /\ Exists(fs, DirectPath) -> DirectPath
      [] OTHER -> Artifact

\* C19: the step that completes a delivery, inline or by link, leaves
\* neither the delivered artifact nor its downloaded source on disk when
\* persistent-storage mode is off, and leaves both when it is on.
C19_DeliveredThenCleaned ==
    [][DeliveredStep =>
          IF persistent
          THEN /\ Exists(fs', Artifact) /\ fs'[Artifact] = fs[Artifact]
               /\ fs'[Downloaded] = fs[Downloaded]
          ELSE ~Exists(fs', Artifact) /\ ~Exists(fs', Downloaded)]_vars

C19_Witness ==
    /\ cmd = "v2g"
    /\ ~persistent
    /\ hist.links = <<GifPath>>
    /\ msg = "deleted"
    /\ pc = "done"
    /\ Exists(fs, GifPath)
    /\ Exists(fs, DirectPath)

\* C20: no exception leaves a command handler, and a request that failed
\* has shown the user one message for it.
C20_NoExceptionEscapes ==
    /\ pc # "crashed"
    /\ hist.escaped = "none"
    /\ (pc = "done" /\ hist.fetch \notin {"none", "ok"}) => Len(hist.reports) = 1
    /\ (pc = "done" /\ speed = 0 /\ hist.procs # <<>>) => Len(hist.reports) = 1

C20_Witness ==
    /\ variant = "unified"
    /\ cmd = "v2g"
    /\ speed = 0
    /\ hist.dl = "ok"
    /\ hist.procs = <<>>
    /\ hist.reports = <<>>
    /\ hist.escaped = "zero_division"
    /\ msg = "live"
    /\ pc = "crashed"

\* C21: the work files are shared, so whenever a call waits for its palette
\* or encode process and the other call has entered convert_to_gif after
\* it, input.mp4 no longer holds this call's video: the process will read
\* the other call's video, or nothing if the other call already cleaned up.
C21_OvertakenCallLosesInput ==
    \A r \in Reqs :
        (/\ conc[r].pc \in {"palette", "encode"}
         /\ conc[r].exit = "pending"
         /\ lastIn # r) => work[WorkFile(r, "input")] # r

\* A call finished with a GIF made from the other call's video, read
\* input.mp4 and palette.png the other call wrote, and a file written by
\* one call was deleted by the other.
C21_Witness ==
    /\ conc[1].pc = "done"
    /\ conc[1].gif = 2
    /\ [by |-> 1, file |-> "input", op |-> "read"] \in foreign
    /\ [by |-> 1, file |-> "palette", op |-> "read"] \in foreign
    /\ \E e \in foreign : e.op = "delete"

\* C22: a result returned by convert_to_gif carries an original size exactly
\* when optimize was requested, which is exactly when the optimizer was
\* started for the request; otherwise the original size is absent.
C22_OriginalIffOptimizerRan ==
    ret.set =>
        /\ (ret.original # None) <=> (LossyRuns # {})
        /\ (ret.original # None) <=> optimize
        /\ ret.original # None => ret.original = initial

C22_Witness ==
    /\ ret.set
    /\ ~optimize
    /\ ret.original = None
    /\ ~ret.upload
    /\ LossyRuns = {}
    /\ hist.inline = <<GifPath>>

C22_WitnessOptimized ==
    /\ ret.set
    /\ optimize
    /\ ret.original = 52
    /\ ret.final = 8
    /\ Cardinality(LossyRuns) = 2

\* The stages of convert_to_gif, and the failures that say a stage's
\* output file is missing.
GifStages == {"palette", "encode", "lossy1", "lossy2"}

ArtifactFailures ==
    {"no_palette", "gif_not_found", "opt_failed", "second_opt_failed"}

\* Stage i of the request exited successfully and wrote nothing.
SilentStage(i) ==
    /\ i \in DOMAIN hist.exits
    /\ hist.exits[i] = "noout"
    /\ hist.procs[i].proc \in GifStages

\* The request ended at stage i with an artifact failure: no later process,
\* no result, and the failure shown (or lost with the deleted message).
FailedAtStage(i) ==
    /\ i = Len(hist.procs)
    /\ ~ret.set
    /\ pc \in {"done", "crashed", "idle"}
    /\ \/ hist.escaped = "not_found"
       \/ /\ hist.reports # <<>>
          /\ Last(hist.reports) \in ArtifactFailures

\* C24: whenever a stage of convert_to_gif (palette, encode, first lossy
\* pass, second lossy pass) exits successfully without writing its output
\* file, the transcode fails with an artifact-not-produced failure and
\* nothing is returned.
C24_SilentStageFails ==
    cmd = "cg" => \A i \in DOMAIN hist.exits : SilentStage(i) => FailedAtStage(i)

\* The part of C24 that holds: the palette, the encode and the first lossy
\* pass.
C24_FirstThreeStagesFail ==
    cmd = "cg" =>
        \A i \in DOMAIN hist.exits :
            (SilentStage(i) /\ hist.procs[i].proc # "lossy2")
                => FailedAtStage(i)

\* The second pass wrote nothing and the call returned the first pass's
\* file size as its result, flagged for upload.
C24_Witness ==
    /\ cmd = "cg"
    /\ \E i \in DOMAIN hist.exits : SilentStage(i) /\ hist.procs[i].proc = "lossy2"
    /\ ret.set
    /\ ret.upload
    /\ ret.final = optimized
    /\ optimized = fs[OptimizedPath]
    /\ hist.reports = <<>>

C24_WitnessPalette ==
    /\ cmd = "cg"
    /\ SilentStage(1)
    /\ hist.reports = <<"no_palette">>

\* The commands of one stage built so far.
Stage(name) == {i \in DOMAIN cmdline : cmdline[i].stage = name}

GifDescriptor == parsed.by = "parse_gif_args"

\* A process of the transcode exited non-zero.
ProcessFailure ==
    raised.kind \in {"docker_failed", "ffmpeg_error", "giflossy_error"}

\* The longest text a truncated diagnostic has: 1000 characters after the
\* longest prefix, "Giflossy error: ".
DiagnosticCap == TruncateAt + 16

\* C23: whichever process stage of convert_to_gif (palette, encode, delay
\* rewrite, lossy passes) exits non-zero, the text of the failure raised is
\* truncated to about 1000 characters, however long the stderr was.
C23_ProcessFailureTruncated ==
    (GifDescriptor /\ ProcessFailure) => TextLen(raised) <= DiagnosticCap

\* The part of C23 that holds: the failures of the encode and of the lossy
\* passes, whose run_docker_cmd is wrapped.
C23_WrappedStagesTruncated ==
    (GifDescriptor /\ raised.kind \in {"ffmpeg_error", "giflossy_error"})
        => /\ TextLen(raised) <= DiagnosticCap
           /\ cmdline[Len(cmdline)].stage \in {"encode", "lossy1", "lossy2"}

\* The palette process failed with 2000 characters of stderr and all of
\* them are in the text raised.
C23_Witness ==
    /\ GifDescriptor
    /\ cmdline # <<>>
    /\ cmdline[Len(cmdline)].stage = "palette"
    /\ raised.kind = "docker_failed"
    /\ raised.kept = 2000
    /\ ~raised.dots
    /\ TextLen(raised) = 2023

C23_WitnessTruncated ==
    /\ GifDescriptor
    /\ cmdline # <<>>
    /\ cmdline[Len(cmdline)].stage = "lossy2"
    /\ raised.kind = "giflossy_error"
    /\ raised.dots
    /\ TextLen(raised) = 1016

\* The fps and scale filters of a filter chain.
FpsAndScale(vf) ==
    {vf[k] : k \in {j \in DOMAIN vf : vf[j].name \in {"fps", "scale"}}}

\* C25: for every fps, scale and speed, speed = 1.0 included, the encode
\* pass of convert_to_gif applies the fps and scale filters of the palette
\* pass.
C25_EncodeFiltersAsPalette ==
    GifDescriptor =>
        \A i \in Stage("palette"), j \in Stage("encode") :
            FpsAndScale(cmdline[j].vf) = FpsAndScale(cmdline[i].vf)

\* The part of C25 that holds: the scale filter always, the fps filter in
\* the nitro variant and whenever the speed differs from 1.0.
C25_ScaleAlwaysFpsWhenSped ==
    GifDescriptor =>
        \A i \in Stage("palette"), j \in Stage("encode") :
            /\ ScaleFilter(parsed) \in FpsAndScale(cmdline[j].vf)
            /\ ScaleFilter(parsed) \in FpsAndScale(cmdline[i].vf)
            /\ (variant = "nitro" \/ parsed.speed.n # parsed.speed.d)
                  => FpsAndScale(cmdline[j].vf) = FpsAndScale(cmdline[i].vf)

\* -fps=8 at speed 1.0 in the unified variant: the palette is generated at
\* 8 frames a second, the encode has no fps filter.
C25_Witness ==
    /\ variant = "unified"
    /\ GifDescriptor
    /\ parsed.fps = 8
    /\ parsed.speed = One
    /\ tpc = "encode"
    /\ FpsFilter(parsed) \in FpsAndScale(cmdline[1].vf)
    /\ FpsAndScale(cmdline[2].vf) = {ScaleFilter(parsed)}

\* d is max(1, r) for r the integer nearest to n/m, the even one of two.
NearestClamped(d, n, m) ==
    \E r \in 0..n :
        /\ 2 * r * m - m <= 2 * n
        /\ 2 * n <= 2 * r * m + m
        /\ (2 * n = 2 * r * m + m \/ 2 * n = 2 * r * m - m) => r % 2 = 0
        /\ d = IF r > 1 THEN r ELSE 1

\* C26: when the speed differs from 1.0 the frame delay written to the
\* encoded GIF is max(1, round((100/fps)/speed)): it is written right after
\* the encode and before the size gate, fps 15 at speed 2.0 gives 3, and it
\* is never below 1.
C26_DelayRescaled ==
    /\ \A i \in Stage("delay") :
          /\ parsed.speed.n # parsed.speed.d
          /\ parsed.fps > 0
          /\ parsed.speed.n > 0
          /\ i > 1
          /\ cmdline[i - 1].stage \in {"encode", "ffmpeg"}
          /\ cmdline[i].delay >= 1
          /\ NearestClamped(cmdline[i].delay, 100 * parsed.speed.d,
                            parsed.fps * parsed.speed.n)
          /\ (parsed.fps = 15 /\ parsed.speed = [n |-> 2, d |-> 1])
                => cmdline[i].delay = 3
    /\ (/\ variant = "nitro"
        /\ tpc \in {"gate", "lossy1", "lossy2"}
        /\ parsed.speed.n # parsed.speed.d)
          => /\ Stage("delay") # {}
             /\ \A i \in Stage("delay"), j \in Stage("lossy1") : i < j

\* fps 15 at speed 2.0: the delay 3 was written and the size is checked.
C26_Witness ==
    /\ variant = "nitro"
    /\ GifDescriptor
    /\ parsed.fps = 15
    /\ parsed.speed = [n |-> 2, d |-> 1]
    /\ tpc = "gate"
    /\ Len(cmdline) = 3
    /\ cmdline[2].stage = "encode"
    /\ cmdline[3].stage = "delay"
    /\ cmdline[3].delay = 3

\* The rounding gives 0 (fps 15 at speed 20) and a half (fps 8 at speed 5).
C26_WitnessClamped ==
    /\ Stage("delay") # {}
    /\ parsed.fps = 15
    /\ parsed.speed = [n |-> 20, d |-> 1]
    /\ cmdline[Len(cmdline)].delay = 1

C26_WitnessHalf ==
    /\ Stage("delay") # {}
    /\ parsed.fps = 8
    /\ parsed.speed = [n |-> 5, d |-> 1]
    /\ cmdline[Len(cmdline)].delay = 2

HasTime == "time" \in DOMAIN parsed /\ parsed.time # <<>>

\* C27: every descriptor a parser returns with a time range has end > start,
\* and the duration handed to a process is positive.
C27_TimeRangeEndAfterStart ==
    /\ HasTime => Greater(parsed.time[2], parsed.time[1])
    /\ \A i \in DOMAIN cmdline :
          cmdline[i].time # <<>> => cmdline[i].time[1].t.n > 0

\* -time=30-10: the palette command is built with -ss 30 -t -20.
C27_Witness ==
    /\ GifDescriptor
    /\ parsed.time = <<[n |-> 30, d |-> 1], [n |-> 10, d |-> 1]>>
    /\ tpc = "palette"
    /\ cmdline[1].time = <<[ss |-> [n |-> 30, d |-> 1],
                            t |-> [n |-> -20, d |-> 1]]>>

\* C28: every descriptor parse_gif_args or parse_v2g_args returns has
\* fps > 0 and speed > 0, so that 100/fps and 1/speed are defined.
C28_FpsAndSpeedPositive ==
    parsed.by \in {"parse_gif_args", "parse_v2g_args"} =>
        /\ parsed.fps > 0
        /\ parsed.speed.n > 0
        /\ raised.kind # "zero_division"

\* -fps=0 with a speed other than 1.0 in the nitro variant: the encode
\* succeeded and "100 / fps" raised ZeroDivisionError.
C28_Witness ==
    /\ variant = "nitro"
    /\ GifDescriptor
    /\ parsed.fps = 0
    /\ parsed.speed.n > 0
    /\ Len(cmdline) = 2
    /\ raised.kind = "zero_division"

C28_WitnessSpeed ==
    /\ variant = "unified"
    /\ parsed.by = "parse_v2g_args"
    /\ parsed.fps > 0
    /\ parsed.speed.n = 0
    /\ cmdline = <<>>
    /\ raised.kind = "zero_division"

AudioFormats == {<<"m", "p", "3">>, <<"w", "a", "v">>, <<"o", "g", "g">>, <<"o", "p", "u", "s">>, <<"b", "e", "s", "t">>}

Modes == {<<"a", "u", "t", "o">>, <<"a", "u", "d", "i", "o">>, <<"m", "u", "t", "e">>}

\* The words of the argument string as typed.
Typed == Split(args_str, 1)

\* Word i is the last of the given flags, and no legacy flag follows it.
LastOf(i, flags) ==
    /\ Typed[i] \in flags
    /\ \A j \in DOMAIN Typed :
          j > i => /\ Typed[j] \notin flags
                   /\ ~StartsAt(Typed[j], 1, <<"-", "m", "o", "d", "e">>)
                   /\ ~StartsAt(Typed[j], 1, <<"-", "a", "u", "d", "i", "o">>)

\* C29: the audio format of a descriptor is one of mp3, wav, ogg, opus, best
\* and its mode one of auto, audio, mute; -wav, -ogg, -opus, -best set the
\* audio format to their name, -audio and -mute the mode.
C29_AudioAndModeInEnum ==
    "audio" \in DOMAIN parsed =>
        /\ parsed.audio \in AudioFormats
        /\ parsed.mode \in Modes
        /\ \A i \in DOMAIN Typed :
              /\ LastOf(i, AudioFlags) => parsed.audio = Tail(Typed[i])
              /\ LastOf(i, ModeFlags) => parsed.mode = Tail(Typed[i])

\* Word i is not taken as the value of a legacy flag before it.
OwnWord(i) == i > 1 => Typed[i - 1] \notin {<<"-", "m", "o", "d", "e">>, <<"-", "q", "u", "a", "l", "i", "t", "y">>}

\* The part of C29 that holds: in the unified variant the audio format is
\* in its enumeration, and each of the six flags sets what it names unless
\* a legacy flag takes it as its value.
C29_UnifiedFlagsMap ==
    ("audio" \in DOMAIN parsed /\ variant = "unified") =>
        /\ parsed.audio \in AudioFormats
        /\ \A i \in DOMAIN Typed :
              /\ (LastOf(i, AudioFlags) /\ OwnWord(i))
                    => parsed.audio = Tail(Typed[i])
              /\ (LastOf(i, ModeFlags) /\ OwnWord(i))
                    => parsed.mode = Tail(Typed[i])

\* -wav in the nitro variant: the audio format is "av".
C29_Witness ==
    /\ variant = "nitro"
    /\ parsed.by = "parse_cobalt_args"
    /\ args_str = <<"u", " ", "-", "w", "a", "v">>
    /\ parsed.audio = <<"a", "v">>
    /\ parsed.audio_provided

C29_WitnessMode ==
    /\ variant = "unified"
    /\ parsed.by = "parse_cobalt_args"
    /\ args_str = <<"u", " ", "-", "m", "o", "d", "e", "=", "f", "o", "o">>
    /\ parsed.mode = <<"f", "o", "o">>

\* The values given to a flag in the words as typed.
Values(flag) ==
    {SubSeq(Typed[i], Len(flag) + 1, Len(Typed[i])) :
        i \in {j \in DOMAIN Typed : StartsAt(Typed[j], 1, flag)}}

WellFormedInt(v) == v # <<>> /\ RunLen(v, 1, DigitChars) = Len(v)

WellFormedFloat(v) ==
    Decimal(v, 1, TRUE).ok /\ Decimal(v, 1, TRUE).len = Len(v)

\* Every value given is malformed.
Malformed(flag, WellFormed(_)) ==
    /\ Values(flag) # {}
    /\ \A v \in Values(flag) : ~WellFormed(v)

\* C30: the parsers return a descriptor for every argument string, and a
\* numeric flag with a malformed value leaves its field at the default.
C30_MalformedLeavesDefault ==
    /\ tpc # "input" => parsed # NoDesc
    /\ parsed.by \in {"parse_gif_args", "parse_v2g_args"} =>
          /\ Malformed(<<"-", "f", "p", "s", "=">>, WellFormedInt) => parsed.fps = DefaultFps
          /\ Malformed(<<"-", "s", "p", "e", "e", "d", "=">>, WellFormedFloat) => parsed.speed = One

\* The part of C30 that holds: a descriptor is returned for every string,
\* and a value that does not begin as a number leaves the default.
C30_DescriptorAlwaysReturned ==
    /\ tpc # "input" => parsed # NoDesc
    /\ parsed.by \in {"parse_gif_args", "parse_v2g_args"} =>
          /\ (/\ Values(<<"-", "f", "p", "s", "=">>) # {}
              /\ \A v \in Values(<<"-", "f", "p", "s", "=">>) : RunLen(v, 1, DigitChars) = 0)
                => parsed.fps = DefaultFps
          /\ (/\ Values(<<"-", "s", "p", "e", "e", "d", "=">>) # {}
              /\ \A v \in Values(<<"-", "s", "p", "e", "e", "d", "=">>) : ~Decimal(v, 1, TRUE).ok)
                => parsed.speed = One

\* -fps=12abc is parsed as 12 frames a second.
C30_Witness ==
    /\ GifDescriptor
    /\ args_str = <<"u", " ", "-", "f", "p", "s", "=", "1", "2", "a", "b", "c">>
    /\ parsed.fps = 12
    /\ tpc = "parsed"

C30_WitnessSpeed ==
    /\ GifDescriptor
    /\ args_str = <<"u", " ", "-", "s", "p", "e", "e", "d", "=", "2", "x">>
    /\ parsed.speed = [n |-> 2, d |-> 1]

CobaltDescriptor == parsed.by = "parse_cobalt_args"

\* The leading words of ws that do not start with "-".
Leading(ws) == SubSeq(ws, 1, UrlWords(ws))

\* A word as typed that parse_cobalt_args acts on.
Recognized(w) ==
    \/ QualityFlag(w) # <<>>
    \/ w = <<"-", "m", "a", "x">>
    \/ w \in AudioFlags
    \/ w \in ModeFlags
    \/ w \in {<<"-", "q", "u", "a", "l", "i", "t", "y">>, <<"-", "m", "o", "d", "e">>}
    \/ StartsAt(w, 1, <<"-", "q", "u", "a", "l", "i", "t", "y", "=">>)
    \/ StartsAt(w, 1, <<"-", "m", "o", "d", "e", "=">>)

\* The words of ws from i on without the unrecognized ones; the word after
\* -quality or -mode is that flag's value.
RECURSIVE WithoutStray(_, _)
WithoutStray(ws, i) ==
    IF i > Len(ws) THEN <<>>
    ELSE IF ws[i] \in {<<"-", "q", "u", "a", "l", "i", "t", "y">>, <<"-", "m", "o", "d", "e">>} /\ i < Len(ws)
    THEN <<ws[i], ws[i + 1]>> \o WithoutStray(ws, i + 2)
    ELSE IF Recognized(ws[i]) THEN <<ws[i]>> \o WithoutStray(ws, i + 1)
    ELSE WithoutStray(ws, i + 1)

\* The argument string without its unrecognized words.
Tidy == Join(Leading(Typed) \o WithoutStray(Typed, UrlWords(Typed) + 1))

\* Descriptors d and e agree on every field but the url.
SameFlags(d, e) ==
    /\ d.quality = e.quality
    /\ d.audio = e.audio
    /\ d.mode = e.mode
    /\ d.quality_provided = e.quality_provided
    /\ d.audio_provided = e.audio_provided
    /\ d.mode_provided = e.mode_provided

\* Unrecognized words change no field.
StraySkipped == SameFlags(parsed, parse_cobalt_args(variant, Tidy))

\* C31: the source parse_cobalt_args returns is the space-joined sequence of
\* the leading words of the argument string that do not start with "-",
\* empty when there are none, and unrecognized words among the others
\* change no field.
C31_SourceIsLeadingWords ==
    CobaltDescriptor =>
        /\ parsed.url = Join(Leading(Typed))
        /\ StraySkipped

\* The part of C31 that holds: the source is made of the leading words of
\* the string after the substitution, and unrecognized words change no
\* field.
C31_SourceOfSubstituted ==
    CobaltDescriptor =>
        /\ parsed.url = Join(Leading(Split(Normalize(variant, args_str, 1), 1)))
        /\ StraySkipped

\* "u-a=b foo -wav": the url returned is "u-a b foo".
C31_Witness ==
    /\ CobaltDescriptor
    /\ variant = "unified"
    /\ args_str = <<"u", "-", "a", "=", "b", " ", "f", "o", "o", " ", "-", "w", "a", "v">>
    /\ parsed.url = <<"u", "-", "a", " ", "b", " ", "f", "o", "o">>
    /\ parsed.audio = <<"w", "a", "v">>

\* Two leading words are joined, a stray word after a flag is skipped.
C31_WitnessJoined ==
    /\ CobaltDescriptor
    /\ args_str = <<"u", " ", "f", "o", "o", " ", "-", "f", "p", "s", "=", "8">>
    /\ parsed.url = <<"u", " ", "f", "o", "o">>
    /\ Tidy = <<"u", " ", "f", "o", "o">>
    /\ ~parsed.quality_provided

\* The word after a legacy flag, when there is one and it is no flag itself.
ValueOf(flag) ==
    {Typed[i + 1] : i \in {j \in DOMAIN Typed :
                              /\ j > UrlWords(Typed)
                              /\ j < Len(Typed)
                              /\ Typed[j] = flag
                              /\ OwnWord(j)
                              /\ Typed[j + 1][1] # "-"}}

\* The string holds the legacy flag once, followed by its value, and no
\* other flag of the same field.
OnlyLegacy(flag, others) ==
    /\ ValueOf(flag) # {}
    /\ \A j \in DOMAIN Typed : Typed[j] \notin others

\* C32: the legacy flags are honoured: "-quality X" sets quality to X,
\* "-audio X" the audio format to X and "-mode X" the mode to X, and each
\* sets the provided flag of its field.
C32_LegacyFlagsHonoured ==
    CobaltDescriptor =>
        /\ OnlyLegacy(<<"-", "q", "u", "a", "l", "i", "t", "y">>, {<<"-", "m", "a", "x">>, <<"-", "7", "2", "0", "p">>})
              => /\ parsed.quality \in ValueOf(<<"-", "q", "u", "a", "l", "i", "t", "y">>)
                 /\ parsed.quality_provided
        /\ OnlyLegacy(<<"-", "a", "u", "d", "i", "o">>, AudioFlags)
              => /\ parsed.audio \in ValueOf(<<"-", "a", "u", "d", "i", "o">>)
                 /\ parsed.audio_provided
        /\ OnlyLegacy(<<"-", "m", "o", "d", "e">>, {<<"-", "m", "u", "t", "e">>})
              => /\ parsed.mode \in ValueOf(<<"-", "m", "o", "d", "e">>)
                 /\ parsed.mode_provided

\* The part of C32 that holds: -quality and -mode.
C32_QualityAndModeHonoured ==
    CobaltDescriptor =>
        /\ OnlyLegacy(<<"-", "q", "u", "a", "l", "i", "t", "y">>, {<<"-", "m", "a", "x">>, <<"-", "7", "2", "0", "p">>})
              => /\ parsed.quality \in ValueOf(<<"-", "q", "u", "a", "l", "i", "t", "y">>)
                 /\ parsed.quality_provided
        /\ OnlyLegacy(<<"-", "m", "o", "d", "e">>, {<<"-", "m", "u", "t", "e">>, <<"-", "a", "u", "d", "i", "o">>})
              => /\ parsed.mode \in ValueOf(<<"-", "m", "o", "d", "e">>)
                 /\ parsed.mode_provided

\* "-audio foo": the mode is set, the audio format is not.
C32_Witness ==
    /\ CobaltDescriptor
    /\ variant = "unified"
    /\ args_str = <<"u", " ", "-", "a", "u", "d", "i", "o", " ", "f", "o", "o">>
    /\ parsed.audio = DefaultAudio
    /\ ~parsed.audio_provided
    /\ parsed.mode = <<"a", "u", "d", "i", "o">>
    /\ parsed.mode_provided

C32_WitnessMode ==
    /\ CobaltDescriptor
    /\ \/ /\ args_str = <<"u", " ", "-", "m", "o", "d", "e", " ", "f", "o", "o">>
          /\ parsed.mode = <<"f", "o", "o">>
          /\ parsed.mode_provided
       \/ /\ args_str = <<"u", " ", "-", "q", "u", "a", "l", "i", "t", "y", " ", "f", "o", "o">>
          /\ parsed.quality = <<"f", "o", "o">>
          /\ parsed.quality_provided

\* "-mode -wav" takes -wav as the mode, "-audio -wav" does not take it.
C32_WitnessConsumed ==
    /\ CobaltDescriptor
    /\ \/ /\ args_str = <<"u", " ", "-", "m", "o", "d", "e", " ", "-", "w", "a", "v">>
          /\ parsed.mode = <<"-", "w", "a", "v">>
          /\ ~parsed.audio_provided
       \/ /\ args_str = <<"u", " ", "-", "a", "u", "d", "i", "o", " ", "-", "w", "a", "v">>
          /\ parsed.mode = <<"a", "u", "d", "i", "o">>
          /\ parsed.audio = <<"w", "a", "v">>

Digit(k) == CHOOSE c \in DigitChars : DigitVal(c) = k

\* str(n) of a natural number.
RECURSIVE Str(_)
Str(n) == IF n < 10 THEN <<Digit(n)>> ELSE Str(n \div 10) \o <<Digit(n % 10)>>

\* The b digits of the fraction f, without trailing zeros.
RECURSIVE Fraction(_, _)
Fraction(f, b) ==
    IF b = 0 \/ f = 0 THEN <<>>
    ELSE IF f % 10 = 0 THEN Fraction(f \div 10, b - 1)
    ELSE Fraction(f \div 10, b - 1) \o <<Digit(f % 10)>>

\* The width b of the denominator 10^b.
RECURSIVE Width(_)
Width(d) == IF d = 1 THEN 0 ELSE 1 + Width(d \div 10)

\* str(x) of the float x = n/d: "2.0", "0.5", "1.5".
StrFloat(x) ==
    LET f == Fraction(x.n % x.d, Width(x.d))
    IN  Str(x.n \div x.d) \o <<".">> \o (IF f = <<>> THEN <<"0">> ELSE f)

\* The flags of a descriptor, in the form the parsers read them.
CobaltFlags(d) ==
    (IF ~d.quality_provided THEN <<>>
     ELSE IF d.quality = <<"m", "a", "x">> THEN <<" ", "-", "m", "a", "x">>
     ELSE <<" ", "-">> \o d.quality \o <<"p">>)
    \o (IF d.audio_provided THEN <<" ", "-">> \o d.audio ELSE <<>>)
    \o (IF d.mode_provided THEN <<" ", "-">> \o d.mode ELSE <<>>)

GifFlags(d) ==
    <<" ", "-", "f", "p", "s", "=">> \o Str(d.fps)
    \o <<" ", "-", "s", "c", "a", "l", "e", "=">> \o d.scale
    \o (IF d.time = <<>> THEN <<>>
        ELSE <<" ", "-", "t", "i", "m", "e", "=">> \o StrFloat(d.time[1]) \o <<"-">> \o StrFloat(d.time[2]))
    \o (IF d.optimize THEN <<" ", "-", "o", "p", "t", "i", "m", "i", "z", "e">> ELSE <<>>)
    \o <<" ", "-", "s", "p", "e", "e", "d", "=">> \o StrFloat(d.speed)

\* The source followed by the flags of the descriptor.
Unparse(d) ==
    d.url \o CobaltFlags(d)
    \o (IF d.by = "parse_gif_args" THEN GifFlags(d) ELSE <<>>)

\* Parsing again with the parser that made d.
Reparse(d) ==
    IF d.by = "parse_gif_args" THEN parse_gif_args(variant, Unparse(d))
    ELSE parse_cobalt_args(variant, Unparse(d))

SameNumber(x, y) == x.n * y.d = y.n * x.d

\* d and e are the same descriptor; floats are compared by value.
SameDescriptor(d, e) ==
    /\ d.by = e.by
    /\ d.url = e.url
    /\ SameFlags(d, e)
    /\ d.by = "parse_gif_args" =>
          /\ d.fps = e.fps
          /\ d.scale = e.scale
          /\ d.optimize = e.optimize
          /\ SameNumber(d.speed, e.speed)
          /\ (d.time = <<>>) = (e.time = <<>>)
          /\ d.time # <<>> => /\ SameNumber(d.time[1], e.time[1])
                              /\ SameNumber(d.time[2], e.time[2])

\* A flag and its value, well formed.
ValidFlag(w) ==
    \/ w \in AudioFlags \cup ModeFlags \cup {<<"-", "m", "a", "x">>, <<"-", "o", "p", "t", "i", "m", "i", "z", "e">>}
    \/ QualityFlag(w) # <<>>
    \/ /\ StartsAt(w, 1, <<"-", "f", "p", "s", "=">>)
       /\ WellFormedInt(SubSeq(w, 6, Len(w)))
    \/ /\ StartsAt(w, 1, <<"-", "s", "p", "e", "e", "d", "=">>)
       /\ WellFormedFloat(SubSeq(w, 8, Len(w)))
    \/ /\ TimeAt(w, 1) # <<>>
       /\ \E k \in 7..Len(w) :
             /\ w[k] = "-"
             /\ WellFormedFloat(SubSeq(w, 7, k - 1))
             /\ WellFormedFloat(SubSeq(w, k + 1, Len(w)))
    \/ w = <<"-", "s", "c", "a", "l", "e", "=", "3", "2", "0", ":", "-", "1">>

\* The argument string is a source followed by valid flags.
ValidFlagString ==
    \A i \in DOMAIN Typed : i > UrlWords(Typed) => ValidFlag(Typed[i])

\* C33: for every valid flag string, parsing the source followed by the
\* flags of the descriptor returned gives the same descriptor again, for
\* parse_cobalt_args and for parse_gif_args.
C33_ParseIdempotent ==
    (parsed.by \in {"parse_cobalt_args", "parse_gif_args"} /\ ValidFlagString)
        => SameDescriptor(parsed, Reparse(parsed))

\* The part of C33 that holds: the unified variant.
C33_UnifiedParseIdempotent ==
    (/\ parsed.by \in {"parse_cobalt_args", "parse_gif_args"}
     /\ ValidFlagString
     /\ variant = "unified")
        => SameDescriptor(parsed, Reparse(parsed))

\* The nitro variant returns "av" for -wav, which no flag gives back.
C33_Witness ==
    /\ parsed.by = "parse_gif_args"
    /\ variant = "nitro"
    /\ args_str = <<"u", " ", "-", "w", "a", "v", " ", "-", "s", "p", "e", "e", "d", "=", ".", "5">>
    /\ parsed.audio = <<"a", "v">>
    /\ Unparse(parsed) = <<"u", " ", "-", "a", "v", " ", "-", "f", "p", "s", "=", "1", "5", " ", "-", "s", "c", "a", "l", "e", "=", "4", "8", "0", ":", "-", "1", " ", "-", "s", "p", "e", "e", "d", "=", "0", ".", "5">>
    /\ Reparse(parsed).audio = DefaultAudio

\* A time range and a speed are written as floats and read back.
C33_WitnessFloats ==
    /\ parsed.by = "parse_gif_args"
    /\ variant = "unified"
    /\ args_str = <<"u", "-", "o", "p", "t", "i", "m", "i", "z", "e", " ", "-", "t", "i", "m", "e", "=", "1", ".", "5", "-", "3", " ", "-", "s", "p", "e", "e", "d", "=", "2", "0">>
    /\ Unparse(parsed) = <<"u", " ", "-", "f", "p", "s", "=", "1", "5", " ", "-", "s", "c", "a", "l", "e", "=", "4", "8", "0", ":", "-", "1", " ", "-", "t", "i", "m", "e", "=", "1", ".", "5", "-", "3", ".", "0", " ", "-", "o", "p", "t", "i", "m", "i", "z", "e", " ", "-", "s", "p", "e", "e", "d", "=", "2", "0", ".", "0">>
    /\ SameDescriptor(parsed, Reparse(parsed))

\* The threshold stored is a number above 0.
AboveZero(x) == x.kind \in {"num", "inf"} /\ x.n > 0

ExpiryTiers == {"1h", "12h", "24h", "72h"}

\* The last command was refused and left the store as it was.
Rejected ==
    /\ reply.sent \in {"invalid", "not_positive"}
    /\ config = reply.before

\* C35: the size threshold is always greater than 0 and the expiry tier
\* one of 1h, 12h, 24h, 72h; a limit command with a value that is no number
\* or not above 0, and an lb command with any other value, are rejected
\* and leave the store unchanged.
C35_ThresholdAndExpiryValid ==
    /\ AboveZero(config.threshold)
    /\ config.expiry \in ExpiryTiers
    /\ (reply.action = "limit" /\ reply.more /\ ~AboveZero(Float(reply.arg)))
          => Rejected
    /\ (reply.action = "lb" /\ reply.more
        /\ Strip(reply.arg) \notin {<<"1">>, <<"1", "2">>, <<"2", "4">>, <<"7", "2">>})
          => Rejected

\* The part of C35 that holds: the threshold is never a number at or below
\* 0, the expiry tier is always one of the four, and a limit text that
\* float() refuses or a value at or below 0 is rejected, as is every lb
\* value but 1, 12, 24, 72.
C35_ExpiryValidThresholdNotBelow ==
    /\ ~NotAboveZero(config.threshold)
    /\ config.threshold.kind # "error"
    /\ config.expiry \in ExpiryTiers
    /\ (/\ reply.action = "limit"
        /\ reply.more
        /\ \/ Float(reply.arg).kind = "error"
           \/ NotAboveZero(Float(reply.arg)))
          => Rejected
    /\ (reply.action = "lb" /\ reply.more
        /\ Strip(reply.arg) \notin {<<"1">>, <<"1", "2">>, <<"2", "4">>, <<"7", "2">>})
          => Rejected

\* "limit nan" is accepted: the threshold stored is not a number.
C35_Witness ==
    /\ reply.action = "limit"
    /\ reply.arg = <<"n", "a", "n">>
    /\ reply.sent = "set"
    /\ config.threshold.kind = "nan"
    /\ reply.before.threshold.kind = "num"

\* "limit 0" and "lb 48" are refused.
C35_WitnessRejected ==
    /\ Rejected
    /\ \/ reply.action = "limit" /\ reply.arg = <<"0">>
       \/ reply.action = "lb" /\ reply.arg = <<"4", "8">>
    /\ config.expiry = "72h"
    /\ config.threshold = [kind |-> "num", n |-> 5, d |-> 10]

\* A step of handle_config_command.
ConfigCommand == SetLimit \/ TogglePersistent \/ ResetSetup \/ StatusProbe

\* C34: the configuration is changed by configuration commands only: no
\* step of a media request, however it ends, changes the size threshold,
\* the persistent flag or another key of the store; a request writes the
\* setup latch only.
C34_RequestsLeaveConfig ==
    [][ConfigCommand \/ UNCHANGED <<limit, persistent, config>>]_vars

\* A request ended after the threshold and the persistent flag had been set.
C34_Witness ==
    /\ pc = "done"
    /\ cmd = "cg"
    /\ variant = "unified"
    /\ limit = DefaultLimitNitro
    /\ persistent
    /\ ret.set

\* A request of the nitro variant has set the latch.
C34_WitnessLatch ==
    /\ variant = "nitro"
    /\ latch
    /\ hist.posts > 0
    /\ hist.contact
    /\ limit = DefaultLimitUnified

\* C36: in every result convert_to_gif returns, the final size reported is
\* the size of the file at the path returned, also when two lossy passes
\* both stayed over the threshold.
C36_FinalIsSizeOfArtifact ==
    (ret.set /\ Exists(fs, ret.path)) => ret.final = fs[ret.path]

\* Both lossy passes ran and the second result is still over the threshold.
BothPassesOver ==
    /\ Cardinality(LossyRuns) = 2
    /\ optimized # None
    /\ optimized > thr

\* The part of C36 that holds: the final size is the size of the file
\* returned unless both lossy passes stayed over the threshold; then it is
\* the size of optimized.gif in the work directory, and the file returned
\* is the one encoded, of the original size.
C36_FinalIsSizeUnlessBothOver ==
    (ret.set /\ Exists(fs, ret.path)) =>
        IF BothPassesOver
        THEN /\ ret.final = fs[OptimizedPath]
             /\ ret.original = fs[ret.path]
             /\ ret.upload
        ELSE ret.final = fs[ret.path]

\* Two passes over the threshold: 50 reported, the file returned has 52.
C36_Witness ==
    /\ ret.set
    /\ BothPassesOver
    /\ ret.final = 50
    /\ fs[ret.path] = 52
    /\ ret.original = 52
    /\ thr = DefaultLimitUnified

\* The second pass got under the threshold: the file returned was replaced.
C36_WitnessReplaced ==
    /\ ret.set
    /\ Cardinality(LossyRuns) = 2
    /\ ret.final = 8
    /\ fs[ret.path] = 8
    /\ ret.original = 52
    /\ ~ret.upload

\* The palette runs the request started.
PaletteRuns == {i \in 1..Len(hist.procs) : hist.procs[i].proc = "palette"}

\* The convert-to-gif request has ended after its fetch had succeeded.
FetchedCgEnded == cmd = "cg" /\ hist.fetch = "ok" /\ Ended

\* C37: in the convert-to-gif command the transcoder is started on exactly
\* one video artifact whenever the fetch succeeded, also when the service
\* answered with a picker.
C37_FetchedCgStartsTranscoder ==
    FetchedCgEnded =>
        /\ Cardinality(PaletteRuns) = 1
        /\ hist.procs[1].proc = "palette"

\* The part of C37 that holds: it does when the fetch returned one path;
\* when it returned the list of a picker no process is started and the
\* request ends with a failure message.
C37_SinglePathStartsTranscoder ==
    FetchedCgEnded =>
        IF isList
        THEN /\ hist.procs = <<>>
             /\ hist.reports # <<>>
        ELSE /\ Cardinality(PaletteRuns) = 1
             /\ hist.procs[1].proc = "palette"

\* A picker with two items was fetched and no process was started.
C37_Witness ==
    /\ FetchedCgEnded
    /\ isList
    /\ Len(paths) = 2
    /\ hist.procs = <<>>
    /\ pc = "done"

C37_WitnessSingle ==
    /\ FetchedCgEnded
    /\ ~isList
    /\ Len(hist.procs) >= 2
    /\ hist.inline = <<GifPath>>

\* The files delivered, as link or inline.
DeliveredFiles ==
    {hist.links[i] : i \in DOMAIN hist.links}
        \cup {hist.inline[i] : i \in DOMAIN hist.inline}

Delivered == Cardinality(DeliveredFiles)

\* A download command with several files has ended after it had delivered
\* one that is not the last.
SeveralAfterFirst ==
    /\ cmd = "c"
    /\ Ended
    /\ Len(paths) >= 2
    /\ \E i \in 1..(Len(paths) - 1) : paths[i] \in DeliveredFiles

\* The files a delivery was started for.
Tried == {hist.sends[i] : i \in DOMAIN hist.sends} \cup {hist.uploads[i] : i \in DOMAIN hist.uploads}

\* C38: the download command that delivers several files of a picker never
\* edits the progress message after it has deleted it: the files after the
\* first are delivered too.
C38_NoEditAfterDelete ==
    SeveralAfterFirst =>
        /\ hist.escaped # "not_found"
        /\ \A i \in DOMAIN paths : paths[i] \in Tried

\* The part of C38 that holds: the first file delivered is the last.  The
\* edit for the next file meets the deleted message, so does the edit of
\* the failure, and the exception leaves the handler.
C38_FirstDeliveredIsLast ==
    SeveralAfterFirst =>
        /\ hist.escaped = "not_found"
        /\ pc = "crashed"
        /\ Delivered = 1
        /\ msg = "deleted"
        /\ paths[Len(paths)] \notin Tried

\* Two files: the first was sent inline, the second never tried.
C38_Witness ==
    /\ SeveralAfterFirst
    /\ Len(paths) = 2
    /\ hist.inline = <<paths[1]>>
    /\ hist.sends = <<paths[1]>>
    /\ hist.uploads = <<>>
    /\ hist.escaped = "not_found"

\* What request r downloaded: its chunks, in order.
OwnBytes(r) == [i \in 1..v2g[r].written |-> r]

\* C39: two requests under way at the same time never write their
\* downloads to the same path: of two v2g requests by url, neither
\* transcodes bytes the other downloaded.
C39_TranscodesOwnDownload ==
    \A r \in Reqs : v2g[r].read => v2g[r].seen = OwnBytes(r)

\* The part of C39 that holds: a request that never ran at the same time as
\* the other transcodes what it downloaded.
C39_AloneTranscodesOwnDownload ==
    ~overlap => \A r \in Reqs : v2g[r].read => v2g[r].seen = OwnBytes(r)

\* Request 1 downloaded two chunks and its ffmpeg read the two chunks of
\* request 2, which opened the same file later.
C39_Witness ==
    /\ overlap
    /\ v2g[1].read
    /\ v2g[1].written = 2
    /\ v2g[1].seen = <<2, 2>>
    /\ v2g[2].written = 2

\* One after the other: each read its own bytes.
C39_WitnessAlone ==
    /\ ~overlap
    /\ v2g[1].read
    /\ v2g[2].read
    /\ v2g[1].seen = <<1, 1>>
    /\ v2g[2].seen = <<2>>

\* A request is under way.
InFlight == pc \notin {"idle", "done", "crashed"}

\* The request has ended with its result delivered or with one failure
\* message shown.
Concluded ==
    /\ Ended
    /\ \/ Delivered >= 1
       \/ Len(hist.reports) = 1

\* C40: every request terminates, given that every external call returns:
\* it reaches a terminal state in which the result was delivered, inline or
\* as a link, or one failure message was shown.
C40_EveryRequestConcludes == InFlight ~> Concluded

\* The part of C40 that holds: every request under way ends, by its return
\* or by an exception that leaves the handler.
C40_EveryRequestEnds == InFlight ~> Ended

\* A request that has ended is concluded (as a state predicate).
C40_EndedIsConcluded == Ended => Concluded

\* A request ended by an exception that left the handler: nothing
\* delivered, no failure shown.
C40_Witness ==
    /\ pc = "crashed"
    /\ hist.escaped # "none"
    /\ Delivered = 0
    /\ hist.reports = <<>>

\* The retry of download_file was used and the request was delivered.
C40_WitnessRetried ==
    /\ pc = "done"
    /\ Len(hist.gets) = 2
    /\ Delivered >= 1
    /\ hist.reports = <<>>

\* C10 as stated: a connection failure gives the setup instructions when the
\* latch is unset and the intermittent-connectivity message when it is set,
\* and once the service has answered with 200 every later connection
\* failure gives the intermittent-connectivity message.
C10_AfterContactAlwaysIntermittent ==
    hist.connLatch # "none" =>
        /\ hist.connLatch = "unset" => hist.fetch = "setup"
        /\ hist.connLatch = "set" => hist.fetch = "intermittent"
        /\ hist.contact => hist.fetch = "intermittent"

\* C10 amended: the message follows the latch as it is when the connection
\* fails, and after an answer with 200 a later connection failure gives the
\* intermittent-connectivity message provided no resetsetup ran since.
C10_MessageFollowsLatch ==
    hist.connLatch # "none" =>
        /\ hist.connLatch = (IF latch THEN "set" ELSE "unset")
        /\ hist.connLatch = "unset" => hist.fetch = "setup"
        /\ hist.connLatch = "set" => hist.fetch = "intermittent"
        /\ hist.sinceReset => hist.fetch = "intermittent"

C10_Witness ==
    /\ hist.connLatch = "set"
    /\ hist.sinceReset
    /\ hist.fetch = "intermittent"
    /\ hist.posts = 1
    /\ pc = "done"

====
